---- MODULE Spec2Model ----
(***************************************************************************)
(* State-machine model of kt/_binary.pyx: the framed socket (_Socket), the *)
(* per-thread socket pool (SocketPool) and the connection handling of the  *)
(* protocol engines (BinaryProtocol and its KT/TT subclasses).             *)
(*                                                                         *)
(* A thread is a caller identity (get_ident()).  A socket is a number; the *)
(* record socks[s] holds the fields of the _Socket object.  The response   *)
(* bytes of the server are modelled in units; every unit carries the       *)
(* identity of the thread whose request it answers.                        *)
(***************************************************************************)
EXTENDS Integers, Sequences, FiniteSets, TLC

\* Bounds of the model.
NThreads == 2
MaxSockets == 3
MaxClock == 160
MaxNet == 2
RespLen == 1
MaxValue == 2

\* `cdef float now` / `cdef float ts` are C floats: time.time() (about 1.7e9,
\* between 2^30 and 2^31) is rounded to a multiple of 2^(30-23) = 128 seconds.
FloatUlp == 128

\* The clock is read in steps of half that spacing, at readings that are no
\* multiple of it (a reading is never exactly a rounded value).
ClockStep == FloatUlp \div 2
FirstReading == ClockStep \div 2

\* close_idle cutoffs: 0 from the documented scenario, 60 the default, and one
\* longer than a clock step.
Cutoffs == {0, 60, 100}

Threads == 1..NThreads

\* Kyoto Tycoon: the database indexes of the server and the keys used.
MaxDb == 1
DBs == 0..MaxDb
Keys == {"k1", "k2"}
None == 0

\* What an engine operation expects from the server: a reply of RespLen units,
\* or nothing (no_reply=True, putnr).  "none" is a bare connect().
Kinds == {"reply", "noreply"}

\* The requests an operation of kind k writes before its one send that the
\* server answers: one; none with no_reply=True; two for TT seize, which
\* writes a get and an out into one buffer.
Requests(k) == IF k = "seize" THEN 2 ELSE IF k = "reply" THEN 1 ELSE 0

VARIABLES
    connection_pool, \* BinaryProtocol._pool is not None
    now,             \* time.time(), seconds after an epoch that is a multiple of 2 * FloatUlp
    socks,           \* the _Socket objects created so far, socks[s] for s in 1..Len(socks)
    in_use,          \* SocketPool.in_use: thread -> socket (None: no entry)
    free,            \* SocketPool.free: the heapq list of <<ts, socket, released>>
    mutex,           \* SocketPool.mutex: the thread holding it, or None
    conn,            \* BinaryProtocol._state.conn of each thread (thread-local)
    pc,              \* where each thread is: "idle", "connecting", "send", "recv"
    kind,            \* the kind of the operation each thread is in
    need,            \* response units the thread's operation has still to read
    op,              \* record of the last step (what was called, by whom, its outcome)
    db,              \* Tokyo Tyrant server: the value stored under the key (None: no record)
    requests,        \* per client: the requests sent that the server has not processed
    responses,       \* per client: the responses of the server the client has not read
    client,          \* per client: the call it is in ("idle", "seize", "put", "out")
    removed,         \* per client: the value of the record its last out request deleted
    result,          \* record of the last call of a client that returned
    answer,          \* record of the last response a response handler has handled
    default_db,      \* KTBinaryProtocol.default_db
    records,         \* Kyoto Tycoon server: the value stored under <<db, key>> (<<>>: no record)
    cursor,          \* Tokyo Tyrant server: the keys its iterator has still to return
    gen,             \* the generator a call of TTBinaryProtocol.keys() returned
    sockobj,         \* one _Socket, with the bytes its peer has sent in sockobj.net
    io               \* record of the last recv or send on sockobj, and the bytes returned so far

\* What the calls on sockets and pool leave alone.
kt_vars == <<default_db, records>>
iter_vars == <<cursor, gen>>
stream_vars == <<sockobj, io>>
aux_vars == <<iter_vars, stream_vars>>
wire_vars == <<db, requests, responses, client, removed, result, answer, kt_vars, aux_vars>>

vars == <<connection_pool, now, socks, in_use, free, mutex, conn, pc, kind, need, op,
          db, requests, responses, client, removed, result, answer, default_db, records,
          cursor, gen, sockobj, io>>

Range(f) == {f[i] : i \in DOMAIN f}

----------------------------------------------------------------------------
(* heapq on a list of (ts, sock) tuples, as CPython's _heapq does it.  The  *)
(* list is 1-indexed here: the parent of i is i \div 2, its children 2i and *)
(* 2i+1.  An entry is <<ts, sock, released>>: the tuple of the code, and as *)
(* history the reading of time.time() at which the socket was checked in    *)
(* (no comparison reads it).                                                *)

\* (ts_a, sock_a) < (ts_b, sock_b): decided by the timestamps; with equal
\* timestamps Python compares the _Socket objects, which define no ordering
\* (TypeError).
TupleLt(a, b) ==
    IF a[1] < b[1] THEN "lt"
    ELSE IF a[1] > b[1] THEN "ge"
    ELSE IF a[2] = b[2] THEN "ge"
    ELSE "err"

Swap(h, i, j) == [h EXCEPT ![i] = h[j], ![j] = h[i]]

RECURSIVE siftdown(_, _, _)
siftdown(h, startpos, pos) ==
    IF pos > startpos
    THEN LET parentpos == pos \div 2
             cmp == TupleLt(h[pos], h[parentpos])
         IN  IF cmp = "err" THEN [heap |-> h, err |-> TRUE]
             ELSE IF cmp = "ge" THEN [heap |-> h, err |-> FALSE]
             ELSE siftdown(Swap(h, pos, parentpos), startpos, parentpos)
    ELSE [heap |-> h, err |-> FALSE]

RECURSIVE siftup_from(_, _, _)
siftup_from(h, startpos, pos) ==
    IF 2 * pos <= Len(h)
    THEN LET left == 2 * pos
             cmp == IF left + 1 <= Len(h) THEN TupleLt(h[left], h[left + 1]) ELSE "lt"
             childpos == IF cmp = "lt" THEN left ELSE left + 1
         IN  IF cmp = "err" THEN [heap |-> h, err |-> TRUE]
             ELSE siftup_from(Swap(h, pos, childpos), startpos, childpos)
    ELSE siftdown(h, startpos, pos)

siftup(h, pos) == siftup_from(h, pos, pos)

\* heapq.heappush(heap, item): append, then sift towards the root.  When a
\* comparison raises, the item stays in the list where the sift stopped.
heappush(h, item) == siftdown(Append(h, item), 1, Len(h) + 1)

\* heapq.heappop(heap), heap not empty: the last element replaces the root and
\* is sifted; the old root is the result.  When a comparison raises, the old
\* root is dropped.
heappop(h) ==
    LET lastelt == h[Len(h)]
        rest == SubSeq(h, 1, Len(h) - 1)
    IN  IF rest = <<>>
        THEN [heap |-> rest, err |-> FALSE, item |-> lastelt]
        ELSE LET r == siftup([rest EXCEPT ![1] = lastelt], 1)
             IN  [heap |-> r.heap, err |-> r.err, item |-> rest[1]]

\* Conversion of a Python float (double) to a C float: round to the nearest
\* multiple of FloatUlp, ties to the even multiple.
F32(x) ==
    LET q == x \div FloatUlp
        r == x % FloatUlp
        half == FloatUlp \div 2
    IN  IF r < half THEN q * FloatUlp
        ELSE IF r > half THEN (q + 1) * FloatUlp
        ELSE IF q % 2 = 0 THEN q * FloatUlp
        ELSE (q + 1) * FloatUlp

----------------------------------------------------------------------------
(* _Socket *)

\* _Socket.__init__; net is the peer's side of the connection: the response
\* units the server has sent or will send that recv_into has not yet returned.
NewSocket ==
    [is_closed |-> FALSE, buf |-> <<>>, bytes_read |-> 0, bytes_written |-> 0,
     net |-> <<>>, dealloc |-> FALSE]

\* _Socket.purge
purge(r) == [r EXCEPT !.buf = <<>>, !.bytes_read = 0, !.bytes_written = 0]

\* _Socket.close: nothing on a closed socket; otherwise purge, shut the
\* connection down (what the peer sent is gone) and set is_closed.
sock_close(r) ==
    IF r.is_closed THEN r
    ELSE [purge(r) EXCEPT !.is_closed = TRUE, !.net = <<>>]

\* _Socket.__del__: the object is deallocated when the last reference to it
\* goes.  The connection is shut down; close() was not called and is_closed
\* stays as it was.
sock_del(r) ==
    [r EXCEPT !.buf = <<>>, !.bytes_read = 0, !.bytes_written = 0, !.net = <<>>,
              !.dealloc = TRUE]

\* Reference counting: the sockets sk once those that neither the pool (iu,
\* fr) nor a thread's connection (cn) refers to are deallocated.
Collect(sk, iu, fr, cn) ==
    [s \in DOMAIN sk |->
        IF \/ \E t \in Threads : iu[t] = s \/ cn[t] = s
           \/ \E i \in DOMAIN fr : fr[i][2] = s
        THEN sk[s]
        ELSE sock_del(sk[s])]

\* The sockets sk with those of S closed.
CloseSocks(sk, S) == [s \in DOMAIN sk |-> IF s \in S THEN sock_close(sk[s]) ELSE sk[s]]

\* The units of socket s that were sent to it and not yet returned by recv.
Unread(s) ==
    SubSeq(socks[s].buf, socks[s].bytes_read + 1, Len(socks[s].buf)) \o socks[s].net

----------------------------------------------------------------------------
(* SocketPool *)

NoLease == [t \in Threads |-> None]

\* A checkout that never takes a socket off free: a caller without a lease
\* always gets a new socket.
checkout_never_reuses(t) ==
    LET held == in_use[t] # None /\ ~socks[in_use[t]].is_closed
        iu == IF in_use[t] # None /\ socks[in_use[t]].is_closed
              THEN [in_use EXCEPT ![t] = None]
              ELSE in_use
    IN  IF held
        THEN [res |-> "ok", sock |-> in_use[t], in_use |-> in_use, free |-> free]
        ELSE [res |-> "create", sock |-> None, in_use |-> iu, free |-> free]

\* A checkout that returns the caller's lease whether it is open or closed.
checkout_keeps_closed(t) ==
    IF in_use[t] # None
    THEN [res |-> "ok", sock |-> in_use[t], in_use |-> in_use, free |-> free]
    ELSE IF free # <<>>
    THEN LET p == heappop(free)
         IN  IF p.err
             THEN [res |-> "error", sock |-> None, in_use |-> in_use, free |-> p.heap]
             ELSE [res |-> "ok", sock |-> p.item[2],
                   in_use |-> [in_use EXCEPT ![t] = p.item[2]], free |-> p.heap]
    ELSE [res |-> "create", sock |-> None, in_use |-> in_use, free |-> free]

\* SocketPool.checkout, up to the call of create_socket.  res is "ok" (sock is
\* the socket returned), "error" (heappop raised) or "create" (no lease, free
\* empty: create_socket is called with the mutex held).
checkout(t) ==
    LET held == in_use[t] # None /\ ~socks[in_use[t]].is_closed
        iu == IF in_use[t] # None /\ socks[in_use[t]].is_closed
              THEN [in_use EXCEPT ![t] = None]
              ELSE in_use
    IN  IF held
        THEN [res |-> "ok", sock |-> in_use[t], in_use |-> in_use, free |-> free]
        ELSE IF free # <<>>
        THEN LET p == heappop(free)
             IN  IF p.err
                 THEN [res |-> "error", sock |-> None, in_use |-> iu, free |-> p.heap]
                 ELSE [res |-> "ok", sock |-> p.item[2],
                       in_use |-> [iu EXCEPT ![t] = p.item[2]], free |-> p.heap]
        ELSE [res |-> "create", sock |-> None, in_use |-> iu, free |-> free]

\* A checkin that puts the socket on free whether it is open or closed.
checkin_closed_too(t) ==
    IF in_use[t] # None
    THEN LET p == heappush(free, <<now, in_use[t], now>>)
         IN  [in_use |-> [in_use EXCEPT ![t] = None], free |-> p.heap, err |-> p.err]
    ELSE [in_use |-> in_use, free |-> free, err |-> FALSE]

\* SocketPool.checkin
checkin(t) ==
    IF in_use[t] # None
    THEN LET sock == in_use[t]
             iu == [in_use EXCEPT ![t] = None]
         IN  IF ~socks[sock].is_closed
             THEN LET p == heappush(free, <<now, sock, now>>)
                  IN  [in_use |-> iu, free |-> p.heap, err |-> p.err]
             ELSE [in_use |-> iu, free |-> free, err |-> FALSE]
    ELSE [in_use |-> in_use, free |-> free, err |-> FALSE]

\* A close that closes the socket of every lease, not the caller's alone.
pool_close_every_lease(t) ==
    [in_use |-> [in_use EXCEPT ![t] = None],
     socks |-> CloseSocks(socks, {in_use[u] : u \in Threads} \ {None})]

\* A close that drops the caller's lease and leaves its socket open.
pool_close_leaves_open(t) ==
    [in_use |-> [in_use EXCEPT ![t] = None], socks |-> socks]

\* SocketPool.close
pool_close(t) ==
    [in_use |-> [in_use EXCEPT ![t] = None],
     socks |-> IF in_use[t] # None THEN CloseSocks(socks, {in_use[t]}) ELSE socks]

\* The loop of SocketPool.close_idle on the heap h; nowf is the C float `now`.
\* popped: the entries taken off free and not pushed back.
RECURSIVE close_idle_loop(_, _, _, _, _)
close_idle_loop(h, nowf, cutoff, n, popped) ==
    IF h = <<>>
    THEN [free |-> h, n |-> n, err |-> FALSE, popped |-> popped]
    ELSE LET p == heappop(h)
             ts == F32(p.item[1])
         IN  IF p.err
             THEN [free |-> p.heap, n |-> n, err |-> TRUE, popped |-> popped \cup {p.item}]
             ELSE IF ts > nowf - cutoff
             THEN LET q == heappush(p.heap, <<ts, p.item[2], p.item[3]>>)
                  IN  [free |-> q.heap, n |-> n, err |-> q.err, popped |-> popped]
             ELSE close_idle_loop(p.heap, nowf, cutoff, n + 1, popped \cup {p.item})

\* SocketPool.close_idle
close_idle(fr, cutoff) == close_idle_loop(fr, F32(now), cutoff, 0, {})

\* SocketPool.close_all on the pool state (iu, fr) and the sockets sk.
close_all(iu, fr, sk) ==
    LET S == {e[2] : e \in Range(fr)} \cup {iu[t] : t \in {u \in Threads : iu[u] # None}}
    IN  [in_use |-> NoLease, free |-> <<>>,
         socks |-> CloseSocks(sk, S),
         n |-> Len(fr) + Cardinality({u \in Threads : iu[u] # None})]

----------------------------------------------------------------------------
(* BinaryProtocol: the calls of the threads *)

\* No generator of keys() exists.
NoGen == [pc |-> "none", inits |-> 0, nexts |-> 0, replies |-> <<>>, yielded |-> <<>>,
          exhausted |-> FALSE, outcome |-> ""]

\* Nothing was received or sent on sockobj yet.
NoIo == [name |-> "init", length |-> 0, data |-> <<>>, cause |-> "", type |-> "",
         message |-> "", taken |-> 0, sent |-> 0, ret |-> FALSE]

\* The record of a step: the call, the calling thread, the socket it worked
\* on, the value returned, the failure raised ("" when none), the owner of the
\* response unit a recv returned, whether an engine operation ended with this
\* step, for close_idle its cutoff and the heap entries it took off free, and
\* for a send the number of requests it wrote that the server answers.
Rec(name, t) ==
    [name |-> name, tid |-> t, sock |-> None, ret |-> 0, err |-> "", tag |-> None,
     done |-> FALSE, cutoff |-> 0, popped |-> {}, nreq |-> 0]

\* Where a thread goes once it has its connection: back to the caller after
\* connect(), on to the send of the request otherwise.
After(k) == IF k = "none" THEN "idle" ELSE "send"

Init ==
    /\ connection_pool \in BOOLEAN
    /\ now = FirstReading
    /\ socks = <<>>
    /\ in_use = NoLease
    /\ free = <<>>
    /\ mutex = None
    /\ conn = [t \in Threads |-> None]
    /\ pc = [t \in Threads |-> "idle"]
    /\ kind = [t \in Threads |-> "none"]
    /\ need = [t \in Threads |-> 0]
    /\ op = Rec("init", None)
    /\ db = None
    /\ requests = [c \in Threads |-> <<>>]
    /\ responses = [c \in Threads |-> <<>>]
    /\ client = [c \in Threads |-> "idle"]
    /\ removed = [c \in Threads |-> None]
    /\ result = [name |-> "init", tid |-> None, ret |-> None, removed |-> None]
    /\ answer = [name |-> "init", magic |-> 0, byte |-> 0, outcome |-> "", read |-> 0]
    /\ default_db = 0
    /\ records = [c \in DBs \X Keys |-> <<>>]
    /\ cursor = <<>>
    /\ gen = NoGen
    /\ sockobj = NewSocket
    /\ io = NoIo

\* BinaryProtocol.connect for a thread without a connection, called by
\* connect() itself (k = "none") or by request() for an operation of kind k.
connect(t, k) ==
    /\ conn[t] = None
    /\ IF connection_pool
       THEN /\ mutex = None
            /\ LET c == checkout(t)
               IN  /\ in_use' = c.in_use
                   /\ free' = c.free
                   /\ conn' = IF c.res = "ok" THEN [conn EXCEPT ![t] = c.sock] ELSE conn
                   /\ mutex' = IF c.res = "create" THEN t ELSE None
                   /\ pc' = [pc EXCEPT ![t] = IF c.res = "ok" THEN After(k)
                                               ELSE IF c.res = "create" THEN "connecting"
                                               ELSE "idle"]
                   /\ kind' = [kind EXCEPT ![t] = IF c.res = "error" THEN "none" ELSE k]
                   /\ op' = [Rec("connect", t) EXCEPT
                               !.sock = c.sock,
                               !.ret = IF c.res = "ok" THEN 1 ELSE 0,
                               !.err = IF c.res = "error" THEN "TypeError" ELSE "",
                               !.done = (c.res = "error" /\ k # "none")]
                   /\ socks' = Collect(socks, c.in_use, c.free, conn')
       ELSE \/ /\ Len(socks) < MaxSockets
               /\ socks' = Append(socks, NewSocket)
               /\ conn' = [conn EXCEPT ![t] = Len(socks) + 1]
               /\ pc' = [pc EXCEPT ![t] = After(k)]
               /\ kind' = [kind EXCEPT ![t] = k]
               /\ op' = [Rec("connect", t) EXCEPT !.sock = Len(socks) + 1, !.ret = 1]
               /\ UNCHANGED <<in_use, free, mutex>>
            \/ /\ op' = [Rec("connect", t) EXCEPT !.err = "connect_failed", !.done = (k # "none")]
               /\ UNCHANGED <<socks, conn, pc, kind, in_use, free, mutex>>
    /\ UNCHANGED <<wire_vars, connection_pool, now, need>>

\* connect() called by the application.
Connect(t) ==
    /\ pc[t] = "idle"
    /\ \/ connect(t, "none")
       \/ /\ conn[t] # None
          /\ op' = [Rec("connect", t) EXCEPT !.sock = conn[t]]
          /\ UNCHANGED <<wire_vars, connection_pool, now, socks, in_use, free, mutex, conn, pc, kind, need>>

\* SocketPool.create_socket, called by checkout with the mutex held: the TCP
\* connect succeeds and the new socket is leased, or it fails and the
\* exception leaves checkout.
CreateSocket(t) ==
    /\ pc[t] = "connecting"
    /\ mutex' = None
    /\ \/ /\ Len(socks) < MaxSockets
          /\ socks' = Append(socks, NewSocket)
          /\ in_use' = [in_use EXCEPT ![t] = Len(socks) + 1]
          /\ conn' = [conn EXCEPT ![t] = Len(socks) + 1]
          /\ pc' = [pc EXCEPT ![t] = After(kind[t])]
          /\ op' = [Rec("create_socket", t) EXCEPT !.sock = Len(socks) + 1, !.ret = 1]
          /\ UNCHANGED <<kind>>
       \/ /\ pc' = [pc EXCEPT ![t] = "idle"]
          /\ kind' = [kind EXCEPT ![t] = "none"]
          /\ op' = [Rec("create_socket", t) EXCEPT !.err = "connect_failed",
                                                    !.done = (kind[t] # "none")]
          /\ UNCHANGED <<socks, in_use, conn>>
    /\ UNCHANGED <<wire_vars, connection_pool, now, free, need>>

\* RequestBuffer.send -> _Socket.send for an operation of kind k on the
\* thread's connection: sendall writes the whole request, and the server will
\* answer it (unless the request asks for no reply); or sendall fails, the
\* socket is closed and the operation fails.
send(t, k) ==
    /\ conn[t] # None
    /\ LET s == conn[t]
           reply == [i \in 1..(RespLen * Requests(k)) |-> t]
       IN  \/ /\ ~socks[s].is_closed
              /\ Len(Unread(s)) + Len(reply) <= MaxNet
              /\ socks' = [socks EXCEPT ![s].net = @ \o reply]
              /\ pc' = [pc EXCEPT ![t] = IF reply # <<>> THEN "recv" ELSE "idle"]
              /\ kind' = [kind EXCEPT ![t] = IF reply # <<>> THEN k ELSE "none"]
              /\ need' = [need EXCEPT ![t] = Len(reply)]
              /\ op' = [Rec("send", t) EXCEPT !.sock = s, !.ret = 1, !.done = (reply = <<>>),
                                               !.nreq = Requests(k)]
           \/ /\ socks' = CloseSocks(socks, {s})
              /\ pc' = [pc EXCEPT ![t] = "idle"]
              /\ kind' = [kind EXCEPT ![t] = "none"]
              /\ need' = [need EXCEPT ![t] = 0]
              /\ op' = [Rec("send", t) EXCEPT !.sock = s, !.err = "send_failed", !.done = TRUE]
    /\ UNCHANGED <<wire_vars, connection_pool, now, in_use, free, mutex, conn>>

\* An engine operation of kind k called by the application: request() connects
\* when the thread has no connection; otherwise the request is written to the
\* thread's connection and sent.
Request(t, k) ==
    /\ pc[t] = "idle"
    /\ \/ connect(t, k)
       \/ send(t, k)

\* The send of the request of an operation that had to connect first.
Send(t) ==
    /\ pc[t] = "send"
    /\ send(t, kind[t])

\* _Socket._read_from_socket(length) for length = 1 on an open socket whose
\* buffer is empty: recv_into returns l >= 1 units (written to buf), or zero
\* bytes (close, then raise), or it times out or fails (raise).
read_from_socket(r) ==
    {[sock |-> [r EXCEPT !.buf = SubSeq(@, 1, r.bytes_written) \o SubSeq(r.net, 1, l),
                         !.bytes_written = @ + l,
                         !.net = SubSeq(@, l + 1, Len(@))],
      err |-> ""] : l \in 1..Len(r.net)}
    \cup {[sock |-> sock_close(r), err |-> "went_away"],
          [sock |-> r, err |-> "timed_out"],
          [sock |-> r, err |-> "read_error"]}

\* _Socket.recv(length) for length = 1 on an open socket: the outcomes, each
\* with the socket afterwards, the failure and the unit returned.
recv(r) ==
    LET filled == IF 1 > r.bytes_written - r.bytes_read
                  THEN read_from_socket(r)
                  ELSE {[sock |-> r, err |-> ""]}
        take(x) == LET y == [x EXCEPT !.bytes_read = @ + 1]
                   IN  IF y.bytes_read = y.bytes_written THEN purge(y) ELSE y
    IN  {IF f.err = ""
         THEN [sock |-> take(f.sock), err |-> "", data |-> f.sock.buf[f.sock.bytes_read + 1]]
         ELSE [sock |-> f.sock, err |-> f.err, data |-> None] : f \in filled}

\* One read of the response by the response handler.  On a closed socket buf
\* is None and the read raises AttributeError.
Recv(t) ==
    /\ pc[t] = "recv"
    /\ LET s == conn[t]
       IN  IF socks[s].is_closed
           THEN /\ op' = [Rec("recv", t) EXCEPT !.sock = s, !.err = "AttributeError",
                                                !.done = TRUE]
                /\ pc' = [pc EXCEPT ![t] = "idle"]
                /\ need' = [need EXCEPT ![t] = 0]
                /\ UNCHANGED socks
           ELSE \E o \in recv(socks[s]) :
                /\ socks' = [socks EXCEPT ![s] = o.sock]
                /\ LET left == IF o.err = "" THEN need[t] - 1 ELSE 0
                   IN  /\ need' = [need EXCEPT ![t] = left]
                       /\ pc' = [pc EXCEPT ![t] = IF left = 0 THEN "idle" ELSE "recv"]
                       /\ op' = [Rec("recv", t) EXCEPT !.sock = s, !.err = o.err,
                                                       !.tag = o.data,
                                                       !.ret = IF o.err = "" THEN 1 ELSE 0,
                                                       !.done = (left = 0)]
    /\ kind' = [kind EXCEPT ![t] = IF pc'[t] = "idle" THEN "none" ELSE @]
    /\ UNCHANGED <<wire_vars, connection_pool, now, in_use, free, mutex, conn>>

\* A close that, without a pool, honours allow_reuse: the connection is
\* dropped and its socket left open.
bp_close_unpooled_reuse(t, allow_reuse) ==
    IF conn[t] = None
    THEN [in_use |-> in_use, free |-> free, socks |-> socks, conn |-> conn,
          ret |-> 0, err |-> ""]
    ELSE IF connection_pool
    THEN IF allow_reuse
         THEN LET c == checkin(t)
              IN  [in_use |-> c.in_use, free |-> c.free, socks |-> socks,
                   conn |-> IF c.err THEN conn ELSE [conn EXCEPT ![t] = None],
                   ret |-> IF c.err THEN 0 ELSE 1,
                   err |-> IF c.err THEN "TypeError" ELSE ""]
         ELSE LET c == pool_close(t)
              IN  [in_use |-> c.in_use, free |-> free, socks |-> c.socks,
                   conn |-> [conn EXCEPT ![t] = None], ret |-> 1, err |-> ""]
    ELSE [in_use |-> in_use, free |-> free,
          socks |-> IF allow_reuse THEN socks ELSE CloseSocks(socks, {conn[t]}),
          conn |-> [conn EXCEPT ![t] = None], ret |-> 1, err |-> ""]

\* BinaryProtocol.close(allow_reuse) as a function of the state: the pool and
\* the sockets afterwards, the thread's connection, the value returned and
\* the failure raised (a checkin that raises leaves _state.conn as it was).
bp_close(t, allow_reuse) ==
    IF conn[t] = None
    THEN [in_use |-> in_use, free |-> free, socks |-> socks, conn |-> conn,
          ret |-> 0, err |-> ""]
    ELSE IF connection_pool
    THEN IF allow_reuse
         THEN LET c == checkin(t)
              IN  [in_use |-> c.in_use, free |-> c.free, socks |-> socks,
                   conn |-> IF c.err THEN conn ELSE [conn EXCEPT ![t] = None],
                   ret |-> IF c.err THEN 0 ELSE 1,
                   err |-> IF c.err THEN "TypeError" ELSE ""]
         ELSE LET c == pool_close(t)
              IN  [in_use |-> c.in_use, free |-> free, socks |-> c.socks,
                   conn |-> [conn EXCEPT ![t] = None], ret |-> 1, err |-> ""]
    ELSE [in_use |-> in_use, free |-> free, socks |-> CloseSocks(socks, {conn[t]}),
          conn |-> [conn EXCEPT ![t] = None], ret |-> 1, err |-> ""]

\* Two readings of time.time() are never equal: when a check-in stamps a
\* socket, no entry of free carries the reading.
FreshReading == \A i \in DOMAIN free : free[i][1] # now

\* close() of thread t checks an open socket in and stamps it.
Stamps(t) ==
    /\ connection_pool
    /\ conn[t] # None
    /\ in_use[t] # None
    /\ ~socks[in_use[t]].is_closed

\* close(allow_reuse) called by the application.
Close(t, allow_reuse) ==
    /\ pc[t] = "idle"
    /\ (allow_reuse /\ Stamps(t)) => FreshReading
    /\ LET c == bp_close(t, allow_reuse)
       IN  /\ in_use' = c.in_use
           /\ free' = c.free
           /\ socks' = c.socks
           /\ conn' = c.conn
           /\ op' = [Rec(IF allow_reuse THEN "close" ELSE "close_noreuse", t) EXCEPT
                       !.sock = conn[t], !.ret = c.ret, !.err = c.err]
    /\ UNCHANGED <<wire_vars, connection_pool, now, mutex, pc, kind, need>>

\* BinaryProtocol.close_idle(cutoff).  SocketPool.close_idle is a cdef int
\* function with no except clause: a TypeError of heapq raised in it leaves
\* the call (Cython 3) or is written to stderr and the function returns 0
\* (Cython 0.29), as the extension was built.
CloseIdle(t, cutoff) ==
    /\ pc[t] = "idle"
    /\ IF connection_pool
       THEN /\ mutex = None
            /\ LET c == close_idle(free, cutoff)
               IN  \E raised \in (IF c.err THEN BOOLEAN ELSE {FALSE}) :
                   /\ free' = c.free
                   /\ conn' = IF ~raised /\ conn[t] # None /\ socks[conn[t]].is_closed
                              THEN [conn EXCEPT ![t] = None]
                              ELSE conn
                   /\ op' = [Rec("close_idle", t) EXCEPT
                               !.ret = IF c.err THEN 0 ELSE c.n,
                               !.err = IF raised THEN "TypeError" ELSE "",
                               !.cutoff = cutoff, !.popped = c.popped]
                   /\ socks' = Collect(socks, in_use, c.free, conn')
       ELSE /\ op' = [Rec("close_idle", t) EXCEPT !.err = "ValueError", !.cutoff = cutoff]
            /\ UNCHANGED <<free, conn, socks>>
    /\ UNCHANGED <<wire_vars, connection_pool, now, in_use, mutex, pc, kind, need>>

\* BinaryProtocol.close_all: close() for the caller, then SocketPool.close_all.
CloseAll(t) ==
    /\ pc[t] = "idle"
    /\ Stamps(t) => FreshReading
    /\ IF connection_pool
       THEN /\ mutex = None
            /\ LET c == bp_close(t, TRUE)
                   a == close_all(c.in_use, c.free, c.socks)
               IN  IF c.err # ""
                   THEN /\ in_use' = c.in_use
                        /\ free' = c.free
                        /\ socks' = c.socks
                        /\ conn' = c.conn
                        /\ op' = [Rec("close_all", t) EXCEPT !.err = c.err]
                   ELSE /\ in_use' = a.in_use
                        /\ free' = a.free
                        /\ socks' = a.socks
                        /\ conn' = c.conn
                        /\ op' = [Rec("close_all", t) EXCEPT !.ret = a.n]
       ELSE /\ op' = [Rec("close_all", t) EXCEPT !.err = "ValueError"]
            /\ UNCHANGED <<in_use, free, socks, conn>>
    /\ UNCHANGED <<wire_vars, connection_pool, now, mutex, pc, kind, need>>

\* Time passes.
Tick ==
    /\ now + ClockStep <= MaxClock
    /\ now' = now + ClockStep
    /\ op' = Rec("tick", None)
    /\ UNCHANGED <<wire_vars, connection_pool, socks, in_use, free, mutex, conn, pc, kind, need>>

Next ==
    \/ \E t \in Threads : Connect(t)
    \/ \E t \in Threads : CreateSocket(t)
    \/ \E t \in Threads, k \in Kinds : Request(t, k)
    \/ \E t \in Threads : Send(t)
    \/ \E t \in Threads : Recv(t)
    \/ \E t \in Threads, allow_reuse \in BOOLEAN : Close(t, allow_reuse)
    \/ \E t \in Threads, cutoff \in Cutoffs : CloseIdle(t, cutoff)
    \/ \E t \in Threads : CloseAll(t)
    \/ Tick

Spec == Init /\ [][Next]_vars

\* The engines at one reading of the clock: every call, close_idle with
\* cutoff 0.
NextEngine ==
    \/ \E t \in Threads : Connect(t)
    \/ \E t \in Threads : CreateSocket(t)
    \/ \E t \in Threads, k \in Kinds : Request(t, k)
    \/ \E t \in Threads : Send(t)
    \/ \E t \in Threads : Recv(t)
    \/ \E t \in Threads, allow_reuse \in BOOLEAN : Close(t, allow_reuse)
    \/ \E t \in Threads : CloseIdle(t, 0)
    \/ \E t \in Threads : CloseAll(t)

SpecEngine == Init /\ [][NextEngine]_vars

\* The pool over time, under operations that read no response
\* (no_reply=True, putnr): a socket is closed by a failed send, by close and
\* by close_all.
NextPool ==
    \/ \E t \in Threads : Connect(t)
    \/ \E t \in Threads : CreateSocket(t)
    \/ \E t \in Threads : Request(t, "noreply")
    \/ \E t \in Threads : Send(t)
    \/ \E t \in Threads, allow_reuse \in BOOLEAN : Close(t, allow_reuse)
    \/ \E t \in Threads, cutoff \in Cutoffs : CloseIdle(t, cutoff)
    \/ \E t \in Threads : CloseAll(t)
    \/ Tick

SpecPool == Init /\ [][NextPool]_vars

\* The operations of a Tokyo Tyrant engine on its connection: those that
\* read a response, and seize.
NextTT ==
    \/ \E t \in Threads : Connect(t)
    \/ \E t \in Threads : CreateSocket(t)
    \/ \E t \in Threads, k \in {"reply", "seize"} : Request(t, k)
    \/ \E t \in Threads : Send(t)
    \/ \E t \in Threads : Recv(t)
    \/ \E t \in Threads, allow_reuse \in BOOLEAN : Close(t, allow_reuse)

SpecTT == Init /\ [][NextTT]_vars

\* Time passes, a quarter of a clock step.
SmallTick ==
    /\ now + ClockStep \div 4 <= MaxClock
    /\ now' = now + ClockStep \div 4
    /\ op' = Rec("tick", None)
    /\ UNCHANGED <<wire_vars, connection_pool, socks, in_use, free, mutex, conn, pc, kind, need>>

\* Leases and releases on a finer clock: connect, close and close_idle.
NextLease ==
    \/ \E t \in Threads : Connect(t)
    \/ \E t \in Threads : CreateSocket(t)
    \/ \E t \in Threads, allow_reuse \in BOOLEAN : Close(t, allow_reuse)
    \/ \E t \in Threads, cutoff \in Cutoffs : CloseIdle(t, cutoff)
    \/ SmallTick

SpecLease == Init /\ [][NextLease]_vars

----------------------------------------------------------------------------
(* TTBinaryProtocol.ext: the script call and its lock flags *)

\* The kind of an ext call with the given lock flags.
ExtKind(lock_records, lock_all) ==
    IF lock_records /\ lock_all THEN "ext_both"
    ELSE IF lock_records THEN "ext_records"
    ELSE IF lock_all THEN "ext_all"
    ELSE "ext"

ExtKinds == {ExtKind(lr, la) : lr, la \in BOOLEAN}

\* The record of a step of ext: the flags of the call and the opts written.
ExtRec(t, k, opts) ==
    [lock_records |-> k \in {"ext_records", "ext_both"},
     lock_all |-> k \in {"ext_all", "ext_both"},
     opts |-> opts] @@ Rec("ext", t)

\* `if lock_records: opts = 1 elif lock_all: opts = 2`, from `int opts = 0`.
ext_opts(lock_records, lock_all) ==
    IF lock_records THEN 1 ELSE IF lock_all THEN 2 ELSE 0

\* ext after `RequestBuffer request = self.request()`: the check of the flags
\* raises ValueError, or the request is written with opts and sent.
ext_body(t, k) ==
    /\ conn[t] # None
    /\ LET s == conn[t]
           lock_records == k \in {"ext_records", "ext_both"}
           lock_all == k \in {"ext_all", "ext_both"}
           opts == ext_opts(lock_records, lock_all)
           reply == [i \in 1..RespLen |-> t]
       IN  IF lock_records /\ lock_all
           THEN /\ op' = [ExtRec(t, k, 0) EXCEPT !.sock = s, !.err = "ValueError", !.done = TRUE]
                /\ pc' = [pc EXCEPT ![t] = "idle"]
                /\ kind' = [kind EXCEPT ![t] = "none"]
                /\ UNCHANGED <<socks, need>>
           ELSE \/ /\ ~socks[s].is_closed
                   /\ Len(Unread(s)) + Len(reply) <= MaxNet
                   /\ socks' = [socks EXCEPT ![s].net = @ \o reply]
                   /\ pc' = [pc EXCEPT ![t] = "recv"]
                   /\ kind' = [kind EXCEPT ![t] = k]
                   /\ need' = [need EXCEPT ![t] = Len(reply)]
                   /\ op' = [ExtRec(t, k, opts) EXCEPT !.sock = s, !.ret = 1, !.nreq = 1]
                \/ /\ socks' = CloseSocks(socks, {s})
                   /\ pc' = [pc EXCEPT ![t] = "idle"]
                   /\ kind' = [kind EXCEPT ![t] = "none"]
                   /\ need' = [need EXCEPT ![t] = 0]
                   /\ op' = [ExtRec(t, k, opts) EXCEPT !.sock = s, !.err = "send_failed",
                                                       !.done = TRUE]
    /\ UNCHANGED <<wire_vars, connection_pool, now, in_use, free, mutex, conn>>

\* ext called by the application: request() is called in the declarations,
\* before anything else, and connects when the thread has no connection.
Ext(t, lock_records, lock_all) ==
    /\ pc[t] = "idle"
    /\ \/ connect(t, ExtKind(lock_records, lock_all))
       \/ ext_body(t, ExtKind(lock_records, lock_all))

\* The rest of an ext that had to connect first.
ExtSend(t) ==
    /\ pc[t] = "send"
    /\ ext_body(t, kind[t])

NextExt ==
    \/ \E t \in Threads : Connect(t)
    \/ \E t \in Threads : CreateSocket(t)
    \/ \E t \in Threads, lock_records, lock_all \in BOOLEAN : Ext(t, lock_records, lock_all)
    \/ \E t \in Threads : ExtSend(t)
    \/ \E t \in Threads : Recv(t)
    \/ \E t \in Threads, allow_reuse \in BOOLEAN : Close(t, allow_reuse)

SpecExt == Init /\ [][NextExt]_vars

----------------------------------------------------------------------------
(* Tokyo Tyrant: clients on connections of their own against one server, and *)
(* one key.  The server processes the requests of a connection in the order *)
(* sent, one request at a time; requests of different connections are       *)
(* processed in any order.                                                  *)

Values == 1..MaxValue

\* What the engine calls leave alone.
engine_vars == <<connection_pool, now, socks, in_use, free, mutex, conn, pc, kind, need, op>>

\* The record of a call that returned.
Returned(name, c, ret) == [name |-> name, tid |-> c, ret |-> ret, removed |-> removed[c]]

\* TTBinaryProtocol.put(key, v), up to the send.
Put(c, v) ==
    /\ client[c] = "idle"
    /\ requests' = [requests EXCEPT ![c] = Append(@, [cmd |-> "put", value |-> v])]
    /\ client' = [client EXCEPT ![c] = "put"]
    /\ UNCHANGED <<kt_vars, aux_vars, engine_vars, db, responses, removed, result, answer>>

\* TTBinaryProtocol.put, from the response on: true when the status is 0.
PutReturn(c) ==
    /\ client[c] = "put"
    /\ responses[c] # <<>>
    /\ result' = Returned("put", c, IF Head(responses[c]).status = 0 THEN 1 ELSE 0)
    /\ responses' = [responses EXCEPT ![c] = Tail(@)]
    /\ client' = [client EXCEPT ![c] = "idle"]
    /\ UNCHANGED <<kt_vars, aux_vars, engine_vars, db, requests, removed, answer>>

\* TTBinaryProtocol.seize(key), up to the send: a get request and an out
\* request for the key are written to one buffer and sent together.
Seize(c) ==
    /\ client[c] = "idle"
    /\ requests' = [requests EXCEPT ![c] = @ \o <<[cmd |-> "get", value |-> None],
                                                  [cmd |-> "out", value |-> None]>>]
    /\ client' = [client EXCEPT ![c] = "seize"]
    /\ removed' = [removed EXCEPT ![c] = None]
    /\ UNCHANGED <<kt_vars, aux_vars, engine_vars, db, responses, result, answer>>

\* What seize returns on the responses get and out to its two requests: the
\* value of get when both statuses are 0, None otherwise.
seize(get, out) ==
    LET value == IF get.status = 0 THEN get.value ELSE None
    IN  IF out.status = 0 THEN value ELSE None

\* TTBinaryProtocol.seize, from the response on.
SeizeReturn(c) ==
    /\ client[c] = "seize"
    /\ Len(responses[c]) >= 2
    /\ result' = Returned("seize", c, seize(responses[c][1], responses[c][2]))
    /\ responses' = [responses EXCEPT ![c] = Tail(Tail(@))]
    /\ client' = [client EXCEPT ![c] = "idle"]
    /\ UNCHANGED <<kt_vars, aux_vars, engine_vars, db, requests, removed, answer>>

\* The server processes the oldest request of connection c and answers it:
\* put stores the value; get answers status 0 and the value, or status 1 when
\* there is no record; out deletes the record, or answers status 1 when
\* there is none.
Serve(c) ==
    /\ requests[c] # <<>>
    /\ LET r == Head(requests[c])
           status == IF r.cmd = "put" \/ db # None THEN 0 ELSE 1
       IN  /\ db' = IF r.cmd = "put" THEN r.value ELSE IF r.cmd = "out" THEN None ELSE db
           /\ removed' = IF r.cmd = "out" THEN [removed EXCEPT ![c] = db] ELSE removed
           /\ responses' = [responses EXCEPT ![c] =
                               Append(@, [status |-> status,
                                          value |-> IF r.cmd = "get" THEN db ELSE None])]
    /\ requests' = [requests EXCEPT ![c] = Tail(@)]
    /\ UNCHANGED <<kt_vars, aux_vars, engine_vars, client, result, answer>>

NextSeize ==
    \/ \E c \in Threads, v \in Values : Put(c, v)
    \/ \E c \in Threads : PutReturn(c)
    \/ \E c \in Threads : Seize(c)
    \/ \E c \in Threads : SeizeReturn(c)
    \/ \E c \in Threads : Serve(c)

SpecSeize == Init /\ [][NextSeize]_vars

----------------------------------------------------------------------------
(* The response handlers: what an operation does on the first byte of the   *)
(* response.                                                                *)

\* The magic bytes of the Kyoto Tycoon binary protocol.
KT_SET_BULK == 184
KT_GET_BULK == 186
KT_REMOVE_BULK == 185
KT_PLAY_SCRIPT == 180
KT_ERROR == 191

KTMagics == {KT_SET_BULK, KT_GET_BULK, KT_REMOVE_BULK, KT_PLAY_SCRIPT}

\* The values of the byte recv(1) returns.
MaxByte == 255
Bytes == 0..MaxByte

\* KTResponseHandler.check_error(magic) on the byte bmagic read: 0 is
\* returned, or an exception raised.
KT_check_error(magic, bmagic) ==
    IF bmagic = magic THEN [ret |-> 0, err |-> ""]
    ELSE IF bmagic = KT_ERROR THEN [ret |-> 0, err |-> "ProtocolError"]
    ELSE [ret |-> 0, err |-> "ServerError"]

\* A status check that takes 0x01 for success.
TT_check_error_miss_is_ok(bmagic) ==
    IF bmagic = 0 \/ bmagic = 1 THEN [ret |-> 0, err |-> ""]
    ELSE [ret |-> 0, err |-> "ServerError"]

\* TTResponseHandler.check_error() on the byte bmagic read.
TT_check_error(bmagic) ==
    IF bmagic = 0 THEN [ret |-> 0, err |-> ""]
    ELSE IF bmagic = 1 THEN [ret |-> 1, err |-> ""]
    ELSE [ret |-> 0, err |-> "ServerError"]

\* The Tokyo Tyrant commands that return data: `if not response.check_error():
\* return response.read_...()`.
TTData == {"get", "mget", "vsiz", "iternext", "fwmkeys", "addint", "adddouble",
           "rnum", "size", "stat"}

\* Those that return `check_error() == 0`.
TTBool == {"put", "putkeep", "putcat", "putshl"}

\* What a Kyoto Tycoon operation with the given magic byte does on the first
\* byte of the response: its outcome ("ok": it goes on to read the body, or
\* the exception), and the reads it has made of the socket.
kt_response(magic, byte) ==
    LET e == KT_check_error(magic, byte)
    IN  [name |-> "kt", magic |-> magic, byte |-> byte,
         outcome |-> IF e.err = "" THEN "ok" ELSE e.err, read |-> 1]

\* What Tokyo Tyrant command cmd does on the status byte: the exception, the
\* boolean returned, the data read and returned, or None.
tt_response(cmd, byte) ==
    LET e == TT_check_error(byte)
    IN  IF e.err # ""
        THEN [name |-> cmd, magic |-> 0, byte |-> byte, outcome |-> e.err, read |-> 1]
        ELSE IF cmd \in TTBool
        THEN [name |-> cmd, magic |-> 0, byte |-> byte,
              outcome |-> IF e.ret = 0 THEN "True" ELSE "False", read |-> 1]
        ELSE IF e.ret = 0
        THEN [name |-> cmd, magic |-> 0, byte |-> byte, outcome |-> "data", read |-> 2]
        ELSE [name |-> cmd, magic |-> 0, byte |-> byte, outcome |-> "None", read |-> 1]

\* The operations whose request is on the wire and whose response is unread.
Sent(name, magic) ==
    [name |-> name, magic |-> magic, byte |-> 0, outcome |-> "sent", read |-> 0]

\* A Kyoto Tycoon operation sends its request.
KTRequest ==
    /\ answer.outcome # "sent"
    /\ \E magic \in KTMagics : answer' = Sent("kt", magic)
    /\ UNCHANGED <<kt_vars, aux_vars, engine_vars, db, requests, responses, client, removed, result>>

\* A Tokyo Tyrant command sends its request.
TTRequest ==
    /\ answer.outcome # "sent"
    /\ \E cmd \in TTData \cup TTBool : answer' = Sent(cmd, 0)
    /\ UNCHANGED <<kt_vars, aux_vars, engine_vars, db, requests, responses, client, removed, result>>

\* A Kyoto Tycoon operation reads the first byte of its response.
KTResponse ==
    /\ answer.name = "kt"
    /\ answer.outcome = "sent"
    /\ \E byte \in Bytes : answer' = kt_response(answer.magic, byte)
    /\ UNCHANGED <<kt_vars, aux_vars, engine_vars, db, requests, responses, client, removed, result>>

\* A Tokyo Tyrant command reads the status byte of its response.
TTResponse ==
    /\ answer.name \in TTData \cup TTBool
    /\ answer.outcome = "sent"
    /\ \E byte \in Bytes : answer' = tt_response(answer.name, byte)
    /\ UNCHANGED <<kt_vars, aux_vars, engine_vars, db, requests, responses, client, removed, result>>

NextResponse ==
    \/ KTRequest
    \/ TTRequest
    \/ KTResponse
    \/ TTResponse

SpecResponse == Init /\ [][NextResponse]_vars

----------------------------------------------------------------------------
(* TTBinaryProtocol.misc *)

\* The commands of the misc channel called here, and the bounds on the
\* arguments of a call and on the values of a response.
Procs == {"get", "putlist"}
MaxArgs == 2
MaxCount == 2

\* The lists of values a response carries.
ValueLists == UNION {[1..n -> Values] : n \in 0..MaxCount}

\* `int opts = 1 if update_log else 0`
misc_opts(update_log) == IF update_log THEN 1 ELSE 0

\* misc up to and including request.send(): one request, with opts and the
\* arguments, is on the wire.
misc_request(proc, nargs, update_log) ==
    [name |-> "misc", magic |-> 0, byte |-> 0, outcome |-> "sent", read |-> 0,
     proc |-> proc, nargs |-> nargs, update_log |-> update_log,
     opts |-> misc_opts(update_log), requests |-> 1, values |-> <<>>, ret |-> None]

\* misc after the send, with the response (status, values) on the socket:
\* `success = self.check_error() == 0` looks check_error up on the engine,
\* which has no such attribute (it is a method of the response handler), so
\* AttributeError is raised and nothing of the response has been read.
misc_response(a, status, values) ==
    [a EXCEPT !.byte = status, !.values = values, !.outcome = "AttributeError",
              !.read = 0, !.ret = None]

\* misc is called and sends its request.
MiscRequest ==
    /\ answer.outcome # "sent"
    /\ \E proc \in Procs, nargs \in 0..MaxArgs, update_log \in BOOLEAN :
           answer' = misc_request(proc, nargs, update_log)
    /\ UNCHANGED <<kt_vars, aux_vars, engine_vars, db, requests, responses, client, removed, result>>

\* The server has answered, and misc goes on after the send.
MiscResponse ==
    /\ answer.name = "misc"
    /\ answer.outcome = "sent"
    /\ \E status \in Bytes, values \in ValueLists :
           answer' = misc_response(answer, status, values)
    /\ UNCHANGED <<kt_vars, aux_vars, engine_vars, db, requests, responses, client, removed, result>>

NextMisc ==
    \/ MiscRequest
    \/ MiscResponse

SpecMisc == Init /\ [][NextMisc]_vars

----------------------------------------------------------------------------
(* KTBinaryProtocol: the calls of one client against a Kyoto Tycoon server. *)
(* A call is one step: the request is written and sent, the server          *)
(* processes it, and the response, when one is asked for, is read.          *)

KT_NOREPLY == 1

\* 0x7fffffffffffffff, in 16-bit words, most significant first.
EXPIRE == <<32767, 65535, 65535, 65535>>

\* The 'q' of struct_dbkvxt ('>HIIq') for 0 <= n < 2^16, in 16-bit words.
pack_q(n) == <<0, 0, 0, n>>

\* The expirations a caller gives: None (<<>>) or a number of seconds.
MaxExpire == 1
XTs == {<<>>} \cup {<<n>> : n \in 0..MaxExpire}

\* The db of a call: None (<<>>) or an index.
DbArgs == {<<>>} \cup {<<d>> : d \in DBs}

\* The order in which the keys of a dict or list are written.
KeyOrder == <<"k1", "k2">>

\* The text codec: encode (UTF-8 bytes of the text) and decode.
encode(v) == <<"utf-8", v>>
decode(b) == b[2]

\* The dicts {key: value} of set_bulk, and the records (db, key, value, xt) of
\* set_bulk_raw; MaxRaw bounds the length of its list.
DictData == UNION {[S -> Values] : S \in (SUBSET Keys) \ {{}}}
MaxRaw == 1
RawRecords == [db : DBs, key : Keys, value : Values, xt : XTs]
RawData == UNION {[1..n -> RawRecords] : n \in 1..MaxRaw}

\* The flags of a request that never asks for no reply.
kt_flags_reply(no_reply) == 0

\* `int flags = KT_NOREPLY if no_reply else 0`
kt_flags(no_reply) == IF no_reply THEN KT_NOREPLY ELSE 0

\* A db taken from the call only when it is not zero (`db or self.default_db`).
kt_db_or_default(dbarg) == IF dbarg = <<>> \/ dbarg[1] = 0 THEN default_db ELSE dbarg[1]

\* `if db is None: db = self.default_db`
kt_db(dbarg) == IF dbarg = <<>> THEN default_db ELSE dbarg[1]

\* `expire_time or EXPIRE` in _set_bulk, as packed.
dict_xt(expire_time) ==
    IF expire_time = <<>> \/ expire_time[1] = 0 THEN EXPIRE ELSE pack_q(expire_time[1])

\* `if xt is None: xt = EXPIRE` in write_db_key_value_expire_list, as packed.
raw_xt(xt) == IF xt = <<>> THEN EXPIRE ELSE pack_q(xt[1])

\* The keys of S in the order written.
KeySeq(S) == SelectSeq(KeyOrder, LAMBDA k : k \in S)

\* write_key_value_list_with_db_expire: the records of a dict, all with the
\* same db and xt.
dict_wire(data, d, xt) ==
    LET ks == KeySeq(DOMAIN data)
    IN  [i \in 1..Len(ks) |-> [db |-> d, key |-> ks[i], value |-> encode(data[ks[i]]), xt |-> xt]]

\* write_db_key_value_expire_list: the records of a list, each with its db
\* and xt.
raw_wire(data) ==
    [i \in 1..Len(data) |-> [db |-> data[i].db, key |-> data[i].key,
                             value |-> encode(data[i].value), xt |-> raw_xt(data[i].xt)]]

\* write_key_list_with_db: the keys, all with the same db.
key_wire(S, d) ==
    LET ks == KeySeq(S)
    IN  [i \in 1..Len(ks) |-> [db |-> d, key |-> ks[i]]]

\* The server stores the records of a set_bulk request, in order.
RECURSIVE server_set(_, _, _)
server_set(recs, wire, i) ==
    IF i > Len(wire) THEN recs
    ELSE server_set([recs EXCEPT ![<<wire[i].db, wire[i].key>>] = wire[i].value], wire, i + 1)

\* The server's response to get_bulk: a record (db, key, value, xt) for every
\* requested key that has one.  No record expires here, and every record is
\* reported with the same expiration.
server_get(recs, wire) ==
    LET found == SelectSeq(wire, LAMBDA r : recs[<<r.db, r.key>>] # <<>>)
    IN  [i \in 1..Len(found) |->
            <<found[i].db, found[i].key, recs[<<found[i].db, found[i].key>>], EXPIRE>>]

\* The server removes the records of a remove_bulk request.
server_remove(recs, wire) ==
    [c \in DOMAIN recs |->
        IF \E i \in 1..Len(wire) : <<wire[i].db, wire[i].key>> = c THEN <<>> ELSE recs[c]]

\* The number of the requested records a remove_bulk request found.
server_removed(recs, wire) ==
    Cardinality({i \in 1..Len(wire) : recs[<<wire[i].db, wire[i].key>>] # <<>>})

\* read_keys_values_with_db_expire: the list of (db, key, value, xt), values
\* decoded.
read_details(resp) ==
    [i \in 1..Len(resp) |-> <<resp[i][1], resp[i][2], decode(resp[i][3]), resp[i][4]>>]

\* read_keys_values_with_db_expire_dict: the dict of key and decoded value,
\* as the set of its items.
read_dict(resp) == {<<resp[i][2], decode(resp[i][3])>> : i \in 1..Len(resp)}

\* A get that returns the first field of the first tuple, the db.
kt_get_db(details) == IF details # <<>> THEN <<details[1][1]>> ELSE <<>>

\* get: `if result: return result[0][2]`, None (<<>>) otherwise.
kt_get(details) == IF details # <<>> THEN <<details[1][3]>> ELSE <<>>

\* The record of a call: its arguments (key, value, the set of keys or the
\* data, db, for each record written the expire_time given, no_reply), the
\* request written (magic, flags, db,
\* the records), the reads of the socket it made and the value it returned
\* (<<>>: None).
KTRec(name, m) ==
    [name |-> name, magic |-> m, byte |-> 0, outcome |-> "ok", read |-> 0,
     key |-> "", value |-> None, keys |-> {}, dbarg |-> <<>>, xtarg |-> <<>>,
     no_reply |-> FALSE, flags |-> 0, db |-> 0, wire |-> <<>>, ret |-> <<>>]

\* No call is in progress: the application has the result of the last one.
NoCall == [name |-> "init", magic |-> 0, byte |-> 0, outcome |-> "", read |-> 0]

\* _set_bulk: the request and, unless no_reply, the count read.
set_bulk_call(a, wire, no_reply) ==
    /\ answer' = [a EXCEPT !.no_reply = no_reply, !.flags = kt_flags(no_reply),
                           !.wire = wire,
                           !.read = IF no_reply THEN 0 ELSE 2,
                           !.ret = IF no_reply THEN <<>> ELSE <<Len(wire)>>]
    /\ records' = server_set(records, wire, 1)
    /\ UNCHANGED <<default_db, aux_vars, engine_vars, db, requests, responses, client, removed, result>>

\* set(key, value, db, expire_time, no_reply)
KTSet(key, value, dbarg, expire_time, no_reply) ==
    /\ answer = NoCall
    /\ LET d == kt_db(dbarg)
           data == [k \in {key} |-> value]
       IN  set_bulk_call([KTRec("set", KT_SET_BULK) EXCEPT
                             !.key = key, !.value = value, !.dbarg = dbarg,
                             !.xtarg = <<expire_time>>, !.db = d],
                         dict_wire(data, d, dict_xt(expire_time)), no_reply)

\* set_bulk(data, db, expire_time, no_reply)
KTSetBulk(data, dbarg, expire_time, no_reply) ==
    /\ answer = NoCall
    /\ LET d == kt_db(dbarg)
       IN  set_bulk_call([KTRec("set_bulk", KT_SET_BULK) EXCEPT
                             !.keys = DOMAIN data, !.dbarg = dbarg,
                             !.xtarg = [i \in 1..Cardinality(DOMAIN data) |-> expire_time],
                             !.db = d],
                         dict_wire(data, d, dict_xt(expire_time)), no_reply)

\* set_bulk_raw(data, no_reply, encode_values)
KTSetBulkRaw(data, no_reply) ==
    /\ answer = NoCall
    /\ set_bulk_call([KTRec("set_bulk_raw", KT_SET_BULK) EXCEPT
                      !.keys = {data[i].key : i \in DOMAIN data},
                      !.xtarg = [i \in DOMAIN data |-> data[i].xt],
                      !.dbarg = <<data[1].db>>, !.db = data[1].db],
                  raw_wire(data), no_reply)

\* _get_bulk for a flat list of keys: the request, the magic byte, the count
\* and the records are read, by get through get_bulk_details, by get_bulk
\* into a dict.
get_bulk_call(a, S, dbarg, details) ==
    LET d == kt_db(dbarg)
        wire == key_wire(S, d)
        resp == server_get(records, wire)
    IN  /\ answer' = [a EXCEPT !.keys = S, !.dbarg = dbarg, !.db = d, !.wire = wire,
                               !.read = 2 + 3 * Len(resp),
                               !.ret = IF details THEN kt_get(read_details(resp))
                                       ELSE <<read_dict(resp)>>]
        /\ UNCHANGED <<kt_vars, aux_vars, engine_vars, db, requests, responses, client, removed, result>>

\* get(key, db)
KTGet(key, dbarg) ==
    /\ answer = NoCall
    /\ get_bulk_call([KTRec("get", KT_GET_BULK) EXCEPT !.key = key], {key}, dbarg, TRUE)

\* get_bulk(keys, db)
KTGetBulk(S, dbarg) ==
    /\ answer = NoCall
    /\ get_bulk_call(KTRec("get_bulk", KT_GET_BULK), S, dbarg, FALSE)

\* _remove_bulk for a flat list of keys: the request and, unless no_reply,
\* the count read.
remove_bulk_call(a, S, dbarg, no_reply) ==
    LET d == kt_db(dbarg)
        wire == key_wire(S, d)
    IN  /\ answer' = [a EXCEPT !.keys = S, !.dbarg = dbarg, !.db = d, !.wire = wire,
                               !.no_reply = no_reply, !.flags = kt_flags(no_reply),
                               !.read = IF no_reply THEN 0 ELSE 2,
                               !.ret = IF no_reply THEN <<>>
                                       ELSE <<server_removed(records, wire)>>]
        /\ records' = server_remove(records, wire)
        /\ UNCHANGED <<default_db, aux_vars, engine_vars, db, requests, responses, client, removed, result>>

\* remove(key, db, no_reply)
KTRemove(key, dbarg, no_reply) ==
    /\ answer = NoCall
    /\ remove_bulk_call([KTRec("remove", KT_REMOVE_BULK) EXCEPT !.key = key], {key}, dbarg, no_reply)

\* remove_bulk(keys, db, no_reply)
KTRemoveBulk(S, dbarg, no_reply) ==
    /\ answer = NoCall
    /\ remove_bulk_call(KTRec("remove_bulk", KT_REMOVE_BULK), S, dbarg, no_reply)

\* script(name, no_reply=...) of a procedure that returns an empty map:
\* `if flags & KT_NOREPLY: return`, else the magic byte and the map are read.
KTScript(no_reply) ==
    /\ answer = NoCall
    /\ answer' = [KTRec("script", KT_PLAY_SCRIPT) EXCEPT
                     !.no_reply = no_reply, !.flags = kt_flags(no_reply),
                     !.read = IF kt_flags(no_reply) % 2 = KT_NOREPLY THEN 0 ELSE 2,
                     !.ret = IF kt_flags(no_reply) % 2 = KT_NOREPLY THEN <<>> ELSE <<{}>>]
    /\ UNCHANGED <<kt_vars, aux_vars, engine_vars, db, requests, responses, client, removed, result>>

\* TTBinaryProtocol.putnr(key, value): send_simple and nothing else.
Putnr(key, value) ==
    /\ answer = NoCall
    /\ answer' = [KTRec("putnr", 0) EXCEPT !.key = key, !.value = value, !.no_reply = TRUE]
    /\ UNCHANGED <<kt_vars, aux_vars, engine_vars, db, requests, responses, client, removed, result>>

\* set_database(db)
KTSetDatabase(d) ==
    /\ answer = NoCall
    /\ default_db' = d
    /\ answer' = [KTRec("set_database", 0) EXCEPT !.dbarg = <<d>>]
    /\ UNCHANGED <<records, aux_vars, engine_vars, db, requests, responses, client, removed, result>>

\* The call has returned to the application.
KTReturn ==
    /\ answer # NoCall
    /\ answer' = NoCall
    /\ UNCHANGED <<kt_vars, aux_vars, engine_vars, db, requests, responses, client, removed, result>>

NextKT ==
    \/ \E key \in Keys, value \in Values, dbarg \in DbArgs, xt \in XTs, no_reply \in BOOLEAN :
           KTSet(key, value, dbarg, xt, no_reply)
    \/ \E data \in DictData, dbarg \in DbArgs, xt \in XTs, no_reply \in BOOLEAN :
           KTSetBulk(data, dbarg, xt, no_reply)
    \/ \E data \in RawData, no_reply \in BOOLEAN : KTSetBulkRaw(data, no_reply)
    \/ \E key \in Keys, dbarg \in DbArgs : KTGet(key, dbarg)
    \/ \E S \in SUBSET Keys, dbarg \in DbArgs : KTGetBulk(S, dbarg)
    \/ \E key \in Keys, dbarg \in DbArgs, no_reply \in BOOLEAN : KTRemove(key, dbarg, no_reply)
    \/ \E S \in SUBSET Keys, dbarg \in DbArgs, no_reply \in BOOLEAN :
           KTRemoveBulk(S, dbarg, no_reply)
    \/ \E no_reply \in BOOLEAN : KTScript(no_reply)
    \/ \E key \in Keys, value \in Values : Putnr(key, value)
    \/ \E d \in DBs : KTSetDatabase(d)
    \/ KTReturn

SpecKT == Init /\ [][NextKT]_vars

----------------------------------------------------------------------------
(* TTBinaryProtocol.keys: the generator over the server's iterator *)

\* The keys of the Tokyo Tyrant server, and the orders in which its iterator
\* can return the records it holds.
MaxTTKeys == 3
TTKeys == 1..MaxTTKeys
KeyLists ==
    {s \in UNION {[1..n -> TTKeys] : n \in 0..MaxTTKeys} :
        \A i, j \in DOMAIN s : i # j => s[i] # s[j]}

\* What a StopIteration raised in the body of a generator becomes: the end of
\* the iteration, or, in a build whose generators follow PEP 479
\* (generator_stop), RuntimeError.
RaisedStopIteration == {"StopIteration", "RuntimeError"}

\* keys() is called: the generator is created, and nothing of its body runs.
KeysCall ==
    /\ gen.pc \in {"none", "done"}
    /\ gen' = [NoGen EXCEPT !.pc = "start"]
    /\ UNCHANGED <<cursor, stream_vars, kt_vars, engine_vars, db, requests, responses, client,
                   removed, result, answer>>

\* The body of the loop of keys() on generator g with the server's iterator
\* at c: iternext is sent, and on status 0 the key read is yielded; on status
\* 1 StopIteration is raised.
keys_loop(g, c) ==
    IF c # <<>>
    THEN {[gen |-> [g EXCEPT !.pc = "yielded", !.nexts = @ + 1,
                             !.replies = Append(@, Head(c)),
                             !.yielded = Append(@, Head(c)), !.outcome = "yield"],
           cursor |-> Tail(c)]}
    ELSE {[gen |-> [g EXCEPT !.pc = "done", !.nexts = @ + 1, !.exhausted = TRUE,
                             !.outcome = o],
           cursor |-> c] : o \in RaisedStopIteration}

\* next() on the generator.  The first runs the body from its start: iterinit
\* is sent, the server sets its iterator to the first of its records, and on
\* a status other than 0 the generator returns; then, and on every later
\* next(), the loop runs up to its yield.
KeysNext ==
    /\ gen.pc \in {"start", "yielded"}
    /\ \/ /\ gen.pc = "start"
          /\ \E ks \in KeyLists, status \in {0, 1} :
                LET g == [gen EXCEPT !.inits = @ + 1]
                IN  IF status # 0
                    THEN /\ gen' = [g EXCEPT !.pc = "done", !.outcome = "StopIteration"]
                         /\ cursor' = ks
                    ELSE \E o \in keys_loop(g, ks) :
                             /\ gen' = o.gen
                             /\ cursor' = o.cursor
       \/ /\ gen.pc = "yielded"
          /\ \E o \in keys_loop(gen, cursor) :
                /\ gen' = o.gen
                /\ cursor' = o.cursor
    /\ UNCHANGED <<stream_vars, kt_vars, engine_vars, db, requests, responses, client,
                   removed, result, answer>>

\* iternext() called by the application: the server returns the next key of
\* its iterator with status 0, or status 1 at its end.
Iternext ==
    /\ answer' = [key |-> IF cursor # <<>> THEN Head(cursor) ELSE None]
                 @@ tt_response("iternext", IF cursor # <<>> THEN 0 ELSE 1)
    /\ cursor' = IF cursor # <<>> THEN Tail(cursor) ELSE cursor
    /\ UNCHANGED <<gen, stream_vars, kt_vars, engine_vars, db, requests, responses, client,
                   removed, result>>

NextKeys ==
    \/ KeysCall
    \/ KeysNext
    \/ Iternext

SpecKeys == Init /\ [][NextKeys]_vars

----------------------------------------------------------------------------
(* _Socket.recv and _Socket.send on one socket, byte by byte.  The peer     *)
(* sends the bytes 1, 2, 3, ...; the network hands them to recv_into in     *)
(* chunks of any size.                                                      *)

\* The size of recvbuf (16 KiB in the source, scaled), the number of bytes the
\* peer sends, and the longest read asked for.
READSIZE == 2
StreamLen == 5
MaxRecv == 3

\* The exception _read_from_socket raises when recv_into returned zero bytes
\* ("zero"), timed out ("timeout") or failed ("error").
recv_error(cause) ==
    [type |-> "ServerConnectionError",
     message |-> IF cause = "zero" THEN "server went away"
                 ELSE IF cause = "timeout" THEN "timed out reading from socket"
                 ELSE "error while reading from socket"]

\* The exception _Socket.send raises when sendall failed.
send_error == [type |-> "ServerConnectionError", message |-> "server went away"]

\* `self.buf.write(recvptr[:l]); self.bytes_written += l`, the buffer
\* positioned at bytes_written: the first l bytes of the connection.
sock_write(r, l) ==
    [r EXCEPT !.buf = SubSeq(@, 1, r.bytes_written) \o SubSeq(r.net, 1, l),
              !.bytes_written = @ + l,
              !.net = SubSeq(@, l + 1, Len(@))]

\* _Socket._read_from_socket(length) with marker bytes read so far: the
\* outcomes of the loop, each with the socket afterwards and the cause of the
\* failure ("" when none).  recv_into returns what the connection holds, up
\* to READSIZE bytes; with nothing there it returns zero bytes when the peer
\* has closed, or times out; it can fail at any time.
RECURSIVE read_loop(_, _, _)
read_loop(r, length, marker) ==
    LET most == IF Len(r.net) < READSIZE THEN Len(r.net) ELSE READSIZE
        got == UNION {LET w == sock_write(r, l)
                      IN  IF length > 0 /\ length > marker + l
                          THEN read_loop(w, length, marker + l)
                          ELSE {[sock |-> w, cause |-> ""]} : l \in 1..most}
    IN  got \cup {[sock |-> r, cause |-> "error"]}
            \cup (IF r.net = <<>>
                  THEN {[sock |-> sock_close(r), cause |-> "zero"],
                        [sock |-> r, cause |-> "timeout"]}
                  ELSE {})

\* A read that purges the buffer whether or not all of it was read.
sock_take_purge(r, length) ==
    [sock |-> purge(r), data |-> SubSeq(r.buf, r.bytes_read + 1, r.bytes_read + length)]

\* A read that never purges the buffer.
sock_take_keep(r, length) ==
    [sock |-> [r EXCEPT !.bytes_read = @ + length],
     data |-> SubSeq(r.buf, r.bytes_read + 1, r.bytes_read + length)]

\* The end of recv: `data = self.buf.read(length)` at bytes_read,
\* `self.bytes_read += length`, and purge when all of the buffer was read.
sock_take(r, length) ==
    LET y == [r EXCEPT !.bytes_read = @ + length]
    IN  [sock |-> IF y.bytes_read = y.bytes_written THEN purge(y) ELSE y,
         data |-> SubSeq(r.buf, r.bytes_read + 1, r.bytes_read + length)]

\* _Socket.recv(length) on an open socket: the outcomes, each with the socket
\* afterwards, the cause of the failure and the bytes returned.
sock_recv(r, length) ==
    LET buflen == r.bytes_written - r.bytes_read
        filled == IF length > buflen
                  THEN read_loop(r, length - buflen, 0)
                  ELSE {[sock |-> r, cause |-> ""]}
    IN  {IF f.cause = ""
         THEN [sock |-> sock_take(f.sock, length).sock, cause |-> "",
               data |-> sock_take(f.sock, length).data]
         ELSE [sock |-> f.sock, cause |-> f.cause, data |-> <<>>] : f \in filled}

\* The peer sends its next byte.
PeerSend ==
    /\ ~sockobj.is_closed
    /\ io.sent < StreamLen
    /\ sockobj' = [sockobj EXCEPT !.net = Append(@, io.sent + 1)]
    /\ io' = [io EXCEPT !.sent = @ + 1]
    /\ UNCHANGED <<iter_vars, kt_vars, engine_vars, db, requests, responses, client, removed,
                   result, answer>>

\* recv(length) is called.
SockRecv(length) ==
    /\ ~sockobj.is_closed
    /\ \E o \in sock_recv(sockobj, length) :
           /\ sockobj' = o.sock
           /\ io' = [name |-> "recv", length |-> length, data |-> o.data, cause |-> o.cause,
                     type |-> IF o.cause = "" THEN "" ELSE recv_error(o.cause).type,
                     message |-> IF o.cause = "" THEN "" ELSE recv_error(o.cause).message,
                     taken |-> io.taken + Len(o.data), sent |-> io.sent, ret |-> FALSE]
    /\ UNCHANGED <<iter_vars, kt_vars, engine_vars, db, requests, responses, client, removed,
                   result, answer>>

\* send(data) is called: sendall writes the data, or fails and the socket is
\* closed.
SockSend ==
    /\ ~sockobj.is_closed
    /\ \/ /\ io' = [io EXCEPT !.name = "send", !.length = 0, !.data = <<>>, !.cause = "",
                              !.type = "", !.message = ""]
          /\ UNCHANGED sockobj
       \/ /\ io' = [io EXCEPT !.name = "send", !.length = 0, !.data = <<>>, !.cause = "error",
                              !.type = send_error.type, !.message = send_error.message]
          /\ sockobj' = sock_close(sockobj)
    /\ UNCHANGED <<iter_vars, kt_vars, engine_vars, db, requests, responses, client, removed,
                   result, answer>>

NextSocket ==
    \/ PeerSend
    \/ \E length \in 1..MaxRecv : SockRecv(length)
    \/ SockSend

SpecSocket == Init /\ [][NextSocket]_vars

\* A close that reports every time that it closed the socket.
close_returns_always(r) == TRUE

\* What _Socket.close returns: False on a closed socket, True otherwise.
close_returns(r) == ~r.is_closed

\* The record of a call that is neither a recv nor a send.
Called(name, cause, type, ret) ==
    [io EXCEPT !.name = name, !.length = 0, !.data = <<>>, !.cause = cause, !.type = type,
               !.message = "", !.ret = ret]

\* close() is called, on an open or on a closed socket.
SockClose ==
    /\ sockobj' = sock_close(sockobj)
    /\ io' = Called("close", "", "", close_returns(sockobj))
    /\ UNCHANGED <<iter_vars, kt_vars, engine_vars, db, requests, responses, client, removed,
                   result, answer>>

\* purge() is called: the buffer is emptied, what was not read included; on
\* a closed socket buf is None and AttributeError is raised.
SockPurge ==
    /\ IF sockobj.is_closed
       THEN /\ io' = Called("purge", "closed", "AttributeError", FALSE)
            /\ UNCHANGED sockobj
       ELSE /\ io' = [Called("purge", "", "", FALSE) EXCEPT
                         !.taken = @ + (sockobj.bytes_written - sockobj.bytes_read)]
            /\ sockobj' = purge(sockobj)
    /\ UNCHANGED <<iter_vars, kt_vars, engine_vars, db, requests, responses, client, removed,
                   result, answer>>

\* recv(length) is called on a closed socket: its buffer holds nothing, and
\* for length > 0 _read_from_socket raises AttributeError on buf, which is
\* None; so does the read of the buffer for length 0.
SockRecvClosed(length) ==
    /\ sockobj.is_closed
    /\ io' = [Called("recv", "closed", "AttributeError", FALSE) EXCEPT !.length = length]
    /\ UNCHANGED <<sockobj, iter_vars, kt_vars, engine_vars, db, requests, responses, client,
                   removed, result, answer>>

\* send(data) is called on a closed socket: sendall fails, close() does
\* nothing and ServerConnectionError is raised.
SockSendClosed ==
    /\ sockobj.is_closed
    /\ io' = [Called("send", "closed", send_error.type, FALSE) EXCEPT
                 !.message = send_error.message]
    /\ sockobj' = sock_close(sockobj)
    /\ UNCHANGED <<iter_vars, kt_vars, engine_vars, db, requests, responses, client, removed,
                   result, answer>>

\* Every call of the framed socket, in any order, on an open and on a closed
\* socket.
NextFramed ==
    \/ PeerSend
    \/ \E length \in 0..MaxRecv : SockRecv(length)
    \/ SockSend
    \/ SockClose
    \/ SockPurge
    \/ \E length \in 0..MaxRecv : SockRecvClosed(length)
    \/ SockSendClosed

SpecFramed == Init /\ [][NextFramed]_vars

-----------------------------------------------------------------------------
(* The variable-length integers of the map and list format *)

\* A uint64_t is kept as two limbs, num = hi * 2^28 + lo with lo < 2^28; the
\* septets of a number are its digits in base 128, four to a limb.
Limb == 268435456
Septet == 128
U64(hi, lo) == [hi |-> hi, lo |-> lo]

\* The numbers written: those around each length of the encoding, and one
\* that is too large for it.
Edges == {0, 1, Septet - 1, Septet, Septet^2 - 1, Septet^2, Septet^3 - 1, Septet^3, Limb - 1}
Nums == {U64(hi, lo) : hi \in Edges \cup {Limb}, lo \in Edges}

\* `num < (1 << 7 * k)`, k in 1..8
below(num, k) ==
    IF k <= 4 THEN num.hi = 0 /\ num.lo < Septet^k
    ELSE num.hi < Septet^(k - 4)

\* `(num >> 7 * k) & 0x7f`, k in 0..7
septet(num, k) ==
    IF k < 4 THEN (num.lo \div Septet^k) % Septet
    ELSE (num.hi \div Septet^(k - 4)) % Septet

\* A byte that is written as it is, its high bit not set.
or_nothing(b) == b

\* `b | 0x80`
or_0x80(b) == IF b >= Septet THEN b ELSE b + Septet

\* _writevarnum(buf, num): the bytes written and their number; nothing is
\* written and 0 returned for a number of 2^56 or more.  The first of n bytes
\* is `(num >> 7 * (n - 1)) | 0x80` for a num below 2^(7 * n), which is its
\* septet n - 1.
writevarnum(num) ==
    IF ~below(num, 8) THEN [buf |-> <<>>, ret |-> 0]
    ELSE LET n == CHOOSE k \in 1..8 : below(num, k) /\ \A j \in 1..(k - 1) : ~below(num, j)
         IN  [buf |-> [i \in 1..n |-> IF i < n THEN or_0x80(septet(num, n - i))
                                     ELSE septet(num, 0)],
              ret |-> n]

\* `num = (num << 7) + (c & 0x7f)`, exact for a num below 2^52; a varint of
\* eight bytes or fewer never shifts a larger one.
shift_add(num, c) ==
    U64((num.hi * Septet) + (num.lo \div Septet^3), ((num.lo % Septet^3) * Septet) + (c % Septet))

\* _readvarnum(buf, size, np) from offset rp with num read so far: the number
\* stored in np and the count of bytes returned.  The loop ends at the first
\* byte below 0x80 or at the end of the input, and the number accumulated is
\* stored in both cases.
RECURSIVE readvarnum_loop(_, _, _, _)
readvarnum_loop(buf, size, rp, num) ==
    IF rp < size
    THEN LET c == buf[rp + 1]
             n == shift_add(num, c)
         IN  IF c < Septet THEN [np |-> n, ret |-> rp + 1]
             ELSE readvarnum_loop(buf, size, rp + 1, n)
    ELSE [np |-> num, ret |-> rp]

readvarnum(buf, size) == readvarnum_loop(buf, size, 0, U64(0, 0))

\* _writevarnum(numbuf, num) is called.
Writevarnum(num) ==
    /\ answer = NoCall
    /\ answer' = [name |-> "writevarnum", num |-> num, buf |-> writevarnum(num).buf,
                  nbytes |-> writevarnum(num).ret, np |-> U64(0, 0), step |-> 0]
    /\ UNCHANGED <<kt_vars, aux_vars, engine_vars, db, requests, responses, client, removed, result>>

\* _readvarnum is called on the bytes written.
Readvarnum ==
    /\ answer.name = "writevarnum"
    /\ answer' = [answer EXCEPT !.name = "readvarnum",
                                !.np = readvarnum(answer.buf, Len(answer.buf)).np,
                                !.step = readvarnum(answer.buf, Len(answer.buf)).ret]
    /\ UNCHANGED <<kt_vars, aux_vars, engine_vars, db, requests, responses, client, removed, result>>

NextVarint ==
    \/ \E num \in Nums : Writevarnum(num)
    \/ Readvarnum
    \/ KTReturn

SpecVarint == Init /\ [][NextVarint]_vars

-----------------------------------------------------------------------------
(* The map and list format: serialize_dict, deserialize_dict,              *)
(* serialize_list, deserialize_list                                        *)

\* The objects of the application: byte strings (bytes) and texts (unicode),
\* the first a sequence of bytes and the second one of code points.
PyBytes(b) == [type |-> "bytes", s |-> b]
PyUnicode(u) == [type |-> "unicode", s |-> u]

\* A byte string long enough for a length of two bytes.
LongBytes == [i \in 1..Septet |-> 97]

\* The byte strings and texts put into lists and maps: b'', b'a', b'ab',
\* b'\xc3\xa9', b'\xff' and a long one; u'', u'a', u'\xe9'.
Items ==
    {PyBytes(b) : b \in {<<>>, <<97>>, <<97, 98>>, <<195, 169>>, <<255>>, LongBytes}}
        \cup {PyUnicode(u) : u \in {<<>>, <<97>>, <<233>>}}

\* The lists serialized, and the dicts, each the sequence of its (key,
\* value) pairs in the order of iteration.
MaxList == 2
MaxPairs == 2
Lists == UNION {[1..n -> Items] : n \in 0..MaxList}
Dicts ==
    {d \in UNION {[1..n -> Items \X Items] : n \in 0..MaxPairs} :
        \A i, j \in DOMAIN d : i # j => d[i][1] # d[j][1]}

\* The dict of a sequence of pairs.
AsDict(d) ==
    [k \in {d[i][1] : i \in DOMAIN d} |-> d[CHOOSE i \in DOMAIN d : d[i][1] = k][2]]

\* The blobs handed to the decoders as they come, MaxBlob bytes at most.
MaxBlob == 3
BlobBytes == {0, 1, 2, 97, Septet, Septet + 1}
Blobs == UNION {[1..n -> BlobBytes] : n \in 0..MaxBlob}

\* PyUnicode_AsUTF8String for code points below 0x800.
RECURSIVE utf8(_)
utf8(u) ==
    IF u = <<>> THEN <<>>
    ELSE (IF Head(u) < Septet THEN <<Head(u)>>
          ELSE <<192 + (Head(u) \div 64), Septet + (Head(u) % 64)>>) \o utf8(Tail(u))

\* bytes.decode('utf-8'): ASCII decodes to itself, whatever its length;
\* otherwise sequences of one and two bytes are decoded and any other byte is
\* invalid (the byte strings above hold no lead byte of a longer sequence).
RECURSIVE from_utf8(_)
from_utf8(b) ==
    IF \A i \in DOMAIN b : b[i] < Septet THEN [ok |-> TRUE, u |-> b]
    ELSE IF Head(b) < Septet
    THEN LET x == from_utf8(Tail(b))
         IN  [ok |-> x.ok, u |-> IF x.ok THEN <<Head(b)>> \o x.u ELSE <<>>]
    ELSE IF Head(b) \in 194..223 /\ Len(b) >= 2 /\ b[2] \in Septet..191
    THEN LET x == from_utf8(Tail(Tail(b)))
         IN  [ok |-> x.ok,
              u |-> IF x.ok THEN <<((Head(b) - 192) * 64) + (b[2] - Septet)>> \o x.u ELSE <<>>]
    ELSE [ok |-> FALSE, u |-> <<>>]

\* _encode(obj) of a text and of a byte string.
encode_bytes(obj) == IF obj.type = "unicode" THEN utf8(obj.s) ELSE obj.s

\* The length `<uint64_t>buflen` of a byte string.
length_of(b) == U64(0, Len(b))

\* _serialize_list(l)
RECURSIVE serialize_list(_)
serialize_list(l) ==
    IF l = <<>> THEN <<>>
    ELSE LET bvalue == encode_bytes(Head(l))
         IN  writevarnum(length_of(bvalue)).buf \o bvalue \o serialize_list(Tail(l))

\* _serialize_dict(d)
RECURSIVE serialize_dict(_)
serialize_dict(d) ==
    IF d = <<>> THEN <<>>
    ELSE LET bkey == encode_bytes(Head(d)[1])
             bvalue == encode_bytes(Head(d)[2])
         IN  writevarnum(length_of(bkey)).buf \o writevarnum(length_of(bvalue)).buf
                 \o bkey \o bvalue \o serialize_dict(Tail(d))

\* What a call of a decoder comes to: the value returned, or the exception
\* raised (ret is then empty), and the number of bytes it read beyond the end
\* of its input.
Outcome(err, message, ret, beyond) ==
    [err |-> err, message |-> message, ret |-> ret, beyond |-> beyond]
NoOutcome == Outcome("", "", <<>>, 0)

\* What the memory beyond the input can hold.
Garbage == {0, 255}

\* `buf += n`
advance(buf, n) == SubSeq(buf, n + 1, Len(buf))

\* `memcpy(item, buf, n)` and `item[:n]`: the bytes copied.  Those beyond the
\* end of the input are whatever the memory holds there.
memcpy(buf, n) ==
    IF n <= Len(buf) THEN {[data |-> SubSeq(buf, 1, n), beyond |-> 0]}
    ELSE {[data |-> buf \o g, beyond |-> n - Len(buf)] : g \in [1..(n - Len(buf)) -> Garbage]}

\* `buflen < step + num`, num a uint64_t below 2^56
too_short(buflen, step, num) == num.hi > 0 \/ buflen < step + num.lo

\* `_decode(bitem) if deserialize else bitem`
item_of(bitem, deserialize) ==
    IF deserialize
    THEN [ok |-> from_utf8(bitem).ok, v |-> PyUnicode(from_utf8(bitem).u)]
    ELSE [ok |-> TRUE, v |-> PyBytes(bitem)]

\* _deserialize_list(data, deserialize) with buf the input left, accum the
\* list so far and beyond the bytes read beyond the input: the outcomes.
RECURSIVE deserialize_list_loop(_, _, _, _)
deserialize_list_loop(buf, accum, beyond, deserialize) ==
    IF Len(buf) = 0 THEN {Outcome("", "", accum, beyond)}
    ELSE LET v == readvarnum(buf, Len(buf))
             num == v.np.lo
             rest == advance(buf, v.ret)
         IN  IF too_short(Len(buf), v.ret, v.np)
             THEN {Outcome("ValueError", "corrupt array item, refusing to process", <<>>, beyond)}
             ELSE UNION {
                    IF ~item_of(m.data, deserialize).ok
                    THEN {Outcome("UnicodeDecodeError", "", <<>>, beyond + m.beyond)}
                    ELSE deserialize_list_loop(advance(rest, num),
                                               Append(accum, item_of(m.data, deserialize).v),
                                               beyond + m.beyond, deserialize)
                    : m \in memcpy(rest, num)}

deserialize_list(data, deserialize) == deserialize_list_loop(data, <<>>, 0, deserialize)

\* `accum[key] = value`
setitem(accum, key, value) ==
    [k \in DOMAIN accum \cup {key} |-> IF k = key THEN value ELSE accum[k]]

\* _deserialize_dict(data, deserialize): the outcomes.  The length of the
\* key is checked against the input left before the length of the value is
\* read, and the length of the value against the input left before the key
\* is copied; after a copy beyond the input buflen is negative and the loop
\* ends.
RECURSIVE deserialize_dict_loop(_, _, _, _)
deserialize_dict_loop(buf, accum, beyond, deserialize) ==
    IF Len(buf) = 0 THEN {Outcome("", "", accum, beyond)}
    ELSE LET k == readvarnum(buf, Len(buf))
             buf1 == advance(buf, k.ret)
             v == readvarnum(buf1, Len(buf1))
             buf2 == advance(buf1, v.ret)
             knum == k.np.lo
             vnum == v.np.lo
             buf3 == advance(buf2, knum)
         IN  IF too_short(Len(buf), k.ret, k.np)
             THEN {Outcome("ValueError", "corrupt key, refusing to process", <<>>, beyond)}
             ELSE IF too_short(Len(buf1), v.ret, v.np)
             THEN {Outcome("ValueError", "corrupt value, refusing to process", <<>>, beyond)}
             ELSE UNION {
                    IF ~from_utf8(mk.data).ok \/ ~item_of(mv.data, deserialize).ok
                    THEN {Outcome("UnicodeDecodeError", "", <<>>, beyond + mk.beyond + mv.beyond)}
                    ELSE deserialize_dict_loop(advance(buf3, vnum),
                                               setitem(accum, PyUnicode(from_utf8(mk.data).u),
                                                       item_of(mv.data, deserialize).v),
                                               beyond + mk.beyond + mv.beyond, deserialize)
                    : mk \in memcpy(buf2, knum), mv \in memcpy(buf3, vnum)}

deserialize_dict(data, deserialize) == deserialize_dict_loop(data, <<>>, 0, deserialize)

\* The record of a call of an encoder or a decoder: dumped tells that the
\* blob is one that the encoder made of input.
Blob(name, input, blob, dumped, deserialize, out) ==
    [name |-> name, input |-> input, blob |-> blob, dumped |-> dumped,
     deserialize |-> deserialize, out |-> out]

\* serialize_list(data)
SerializeList(l) ==
    /\ answer = NoCall
    /\ answer' = Blob("serialize_list", l, serialize_list(l), TRUE, FALSE, NoOutcome)
    /\ UNCHANGED <<kt_vars, aux_vars, engine_vars, db, requests, responses, client, removed, result>>

\* deserialize_list(data, decode_values) of the blob just made, or of any
\* blob.
DeserializeList(deserialize) ==
    /\ answer.name = "serialize_list"
    /\ \E out \in deserialize_list(answer.blob, deserialize) :
           answer' = [answer EXCEPT !.name = "deserialize_list", !.deserialize = deserialize,
                                    !.out = out]
    /\ UNCHANGED <<kt_vars, aux_vars, engine_vars, db, requests, responses, client, removed, result>>

ListBlob(data, deserialize) ==
    /\ answer = NoCall
    /\ \E out \in deserialize_list(data, deserialize) :
           answer' = Blob("deserialize_list", <<>>, data, FALSE, deserialize, out)
    /\ UNCHANGED <<kt_vars, aux_vars, engine_vars, db, requests, responses, client, removed, result>>

\* serialize_dict(data)
SerializeDict(d) ==
    /\ answer = NoCall
    /\ answer' = Blob("serialize_dict", d, serialize_dict(d), TRUE, FALSE, NoOutcome)
    /\ UNCHANGED <<kt_vars, aux_vars, engine_vars, db, requests, responses, client, removed, result>>

\* deserialize_dict(data, decode_values) of the blob just made, or of any
\* blob.
DeserializeDict(deserialize) ==
    /\ answer.name = "serialize_dict"
    /\ \E out \in deserialize_dict(answer.blob, deserialize) :
           answer' = [answer EXCEPT !.name = "deserialize_dict", !.deserialize = deserialize,
                                    !.out = out]
    /\ UNCHANGED <<kt_vars, aux_vars, engine_vars, db, requests, responses, client, removed, result>>

DictBlob(data, deserialize) ==
    /\ answer = NoCall
    /\ \E out \in deserialize_dict(data, deserialize) :
           answer' = Blob("deserialize_dict", <<>>, data, FALSE, deserialize, out)
    /\ UNCHANGED <<kt_vars, aux_vars, engine_vars, db, requests, responses, client, removed, result>>

NextBlob ==
    \/ \E l \in Lists : SerializeList(l)
    \/ \E deserialize \in BOOLEAN : DeserializeList(deserialize)
    \/ \E data \in Blobs, deserialize \in BOOLEAN : ListBlob(data, deserialize)
    \/ \E d \in Dicts : SerializeDict(d)
    \/ \E deserialize \in BOOLEAN : DeserializeDict(deserialize)
    \/ \E data \in Blobs, deserialize \in BOOLEAN : DictBlob(data, deserialize)
    \/ KTReturn

SpecBlob == Init /\ [][NextBlob]_vars

----------------------------------------------------------------------------
(* The claims *)

\* The sockets leased in in_use, and those of the entries of free.
Leased == {in_use[t] : t \in Threads} \ {None}
Idle == {free[i][2] : i \in DOMAIN free}

\* The calls that operate on the pool.
PoolCalls == {"connect", "create_socket", "close", "close_noreuse", "close_idle", "close_all"}

\* C1: no socket is the current connection of two distinct callers at the same
\* time, and a response unit a caller's read returns was sent in reply to a
\* request of that caller.
C1_CallersIsolated ==
    /\ \A t, u \in Threads : (t # u /\ conn[t] # None) => conn[t] # conn[u]
    /\ (op.name = "recv" /\ op.err = "") => op.tag = op.tid

\* C2: when an engine operation fails on a send failure, a zero-byte read or a
\* receive timeout, the failed socket is closed, it is no entry of in_use, and
\* it is no longer the caller's connection (the caller's next operation
\* connects anew).
C2_FailedSocketEvicted ==
    (op.done /\ op.err \in {"send_failed", "went_away", "timed_out"}) =>
        /\ socks[op.sock].is_closed
        /\ op.sock \notin Leased
        /\ conn[op.tid] # op.sock

\* C3: when an engine operation has returned or failed, its socket is closed
\* or holds no unread unit of the response to the caller's request.
C3_ResponseConsumedOrClosed ==
    (op.done /\ op.name \in {"send", "recv"}) =>
        \/ socks[op.sock].is_closed
        \/ \A i \in DOMAIN Unread(op.sock) : Unread(op.sock)[i] # op.tid

\* C4: after a failure of the socket's recv or send (zero-byte read, receive
\* timeout, any other socket error) is_closed is true for the socket.
C4_FailureCloses ==
    (op.name \in {"send", "recv"}
        /\ op.err \in {"send_failed", "went_away", "timed_out", "read_error"}) =>
        socks[op.sock].is_closed

C6_CloseIdleCloses ==
    (op.name = "close_idle" /\ op.err = "") =>
        /\ \A e \in op.popped : socks[e[2]].is_closed
        /\ op.ret = Cardinality({e \in op.popped : socks[e[2]].is_closed})

\* C7: after close_idle(c) at time t every entry left in free was released at
\* t - c or later, and no entry removed was released later than one left.
C7_CloseIdleReapsStalest ==
    (op.name = "close_idle" /\ op.err = "") =>
        /\ \A i \in DOMAIN free : free[i][3] >= now - op.cutoff
        /\ \A e \in op.popped : \A i \in DOMAIN free : e[3] <= free[i][3]

\* C8: close_idle(0) with no socket leased empties free and returns the number
\* of entries free had; close_idle(c) removes nothing and returns 0 when every
\* entry of free was released less than c seconds before.
C8_CloseIdleCutoff ==
    (connection_pool /\ op.name = "close_idle") =>
        /\ (op.cutoff = 0 /\ in_use = NoLease) =>
               /\ op.err = ""
               /\ free = <<>>
               /\ op.ret = Cardinality(op.popped)
        /\ (\A e \in op.popped \cup Range(free) : now - e[3] < op.cutoff) =>
               /\ op.err = ""
               /\ op.popped = {}
               /\ op.ret = 0

\* C9: no pool operation closes a socket that is leased in in_use to a caller
\* other than the one invoking it.
C9_NoCallClosesOthersLease ==
    [][op'.name \in PoolCalls =>
          \A u \in Threads \ {op'.tid} :
              (in_use[u] # None /\ ~socks[in_use[u]].is_closed) =>
                  ~socks'[in_use[u]].is_closed]_vars

\* C9 (amended): no pool operation other than close_all closes a socket that
\* is leased in in_use to a caller other than the one invoking it.
C9_OnlyCloseAllClosesOthersLease ==
    [][op'.name \in PoolCalls \ {"close_all"} =>
          \A u \in Threads \ {op'.tid} :
              (in_use[u] # None /\ ~socks[in_use[u]].is_closed) =>
                  ~socks'[in_use[u]].is_closed]_vars

\* C9, its case: SocketPool.close has closed the caller's leased socket while
\* another caller holds a lease on an open socket.
C9_Witness ==
    /\ connection_pool
    /\ op.name = "close_noreuse"
    /\ op.sock # None
    /\ socks[op.sock].is_closed
    /\ \E u \in Threads \ {op.tid} : in_use[u] # None /\ ~socks[in_use[u]].is_closed

\* C10: the pool tracks at most as many sockets as there are callers:
\* |free| + |in_use| <= N.
C10_PoolSizeBounded ==
    Len(free) + Cardinality({t \in Threads : in_use[t] # None}) <= NThreads

\* C10, its case: a checkout has taken a socket off free, and the pool tracks
\* N sockets, one of them still in free.
C10_Witness ==
    /\ op.name = "connect"
    /\ op.sock # None
    /\ in_use[op.tid] = op.sock
    /\ free # <<>>
    /\ Len(free) + Cardinality({t \in Threads : in_use[t] # None}) = NThreads

\* C11: every socket in free is open and clean: nothing buffered or still to
\* arrive is unread, and bytes_read = bytes_written = 0.
C11_FreeSocketsClean ==
    \A i \in DOMAIN free :
        /\ ~socks[free[i][2]].is_closed
        /\ Unread(free[i][2]) = <<>>
        /\ socks[free[i][2]].bytes_read = 0
        /\ socks[free[i][2]].bytes_written = 0

\* C12: no send writes a request while the response to an earlier request
\* on the socket is not fully read, and no send writes more than one request
\* that awaits a response.
C12_OneRequestInFlight ==
    [][(op'.name = "send" /\ op'.err = "") =>
          /\ Unread(op'.sock) = <<>>
          /\ op'.nreq <= 1]_vars

\* C13: checkout returns the caller's leased socket when it holds an open one
\* (free unchanged, no socket created); otherwise it leases the entry of free
\* released the longest ago; with no open lease and free empty it creates a
\* socket.  Afterwards in_use[caller] is the socket returned.
C13_Checkout ==
    [][/\ (connection_pool /\ op'.name = "connect" /\ conn[op'.tid] = None) =>
              IF in_use[op'.tid] # None /\ ~socks[in_use[op'.tid]].is_closed
              THEN /\ op'.sock = in_use[op'.tid]
                   /\ in_use'[op'.tid] = op'.sock
                   /\ free' = free
                   /\ Len(socks') = Len(socks)
              ELSE IF free # <<>>
              THEN /\ \E i \in DOMAIN free :
                          /\ free[i][2] = op'.sock
                          /\ \A j \in DOMAIN free : free[i][3] <= free[j][3]
                   /\ in_use'[op'.tid] = op'.sock
                   /\ Len(socks') = Len(socks)
              ELSE pc'[op'.tid] = "connecting"
       /\ (op'.name = "create_socket" /\ op'.err = "") =>
              /\ op'.sock = Len(socks) + 1
              /\ Len(socks') = Len(socks) + 1
              /\ in_use'[op'.tid] = op'.sock
              /\ free' = free]_vars

\* C14: close(allow_reuse=True) on a pooled engine by a caller holding a lease
\* removes the caller's entry from in_use and, if and only if the socket is
\* open, adds it to free stamped with the current time; a caller without a
\* lease changes neither in_use nor free.
C14_Checkin ==
    [][(connection_pool /\ op'.name = "close" /\ conn[op'.tid] # None) =>
          IF in_use[op'.tid] # None
          THEN /\ in_use' = [in_use EXCEPT ![op'.tid] = None]
               /\ IF ~socks[in_use[op'.tid]].is_closed
                  THEN /\ Len(free') = Len(free) + 1
                       /\ Range(free') = Range(free) \cup {<<now, in_use[op'.tid], now>>}
                  ELSE free' = free
          ELSE in_use' = in_use /\ free' = free]_vars

\* C14, its case: a checkin has put the caller's open socket on free with the
\* current time, beside the socket that was there.
C14_Witness ==
    /\ connection_pool
    /\ op.name = "close"
    /\ op.ret = 1
    /\ in_use[op.tid] = None
    /\ Len(free) = 2
    /\ \E i \in DOMAIN free : free[i] = <<now, op.sock, now>>

C16_CloseAll ==
    [][(connection_pool /\ op'.name = "close_all" /\ op'.err = "") =>
          /\ in_use' = NoLease
          /\ free' = <<>>
          /\ \A s \in Leased \cup Idle : socks'[s].is_closed
          /\ conn[op'.tid] # None => socks'[conn[op'.tid]].is_closed
          /\ op'.ret = Len(free) + Cardinality({u \in Threads : in_use[u] # None})]_vars

C18_SeizeAtomic ==
    result.name = "seize" =>
        /\ result.ret # None => result.removed = result.ret
        /\ result.removed # None => result.ret = result.removed

\* C19: on the first byte of a Kyoto Tycoon response, the request's magic byte
\* means success; 0xBF fails with ServerInternalError (kt.exceptions.ServerError)
\* and nothing more is read; any other byte fails with ProtocolError.
C19_KTFirstByte ==
    (answer.name = "kt" /\ answer.outcome # "sent") =>
        /\ answer.byte = answer.magic => answer.outcome = "ok"
        /\ (answer.byte = KT_ERROR /\ answer.byte # answer.magic) =>
               answer.outcome = "ServerError" /\ answer.read = 1
        /\ answer.byte \notin {answer.magic, KT_ERROR} => answer.outcome = "ProtocolError"

\* C20: on the status byte of a Tokyo Tyrant response, a byte other than 0x00
\* and 0x01 fails the call; a command that returns data reads and returns it
\* on 0x00 alone, and on 0x01 returns None and reads nothing more; put,
\* putkeep, putcat and putshl return True exactly on 0x00.
C20_TTStatusByte ==
    (answer.name \in TTData \cup TTBool /\ answer.outcome # "sent") =>
        /\ answer.byte \notin {0, 1} <=> answer.outcome \notin {"data", "None", "True", "False"}
        /\ answer.name \in TTData =>
               /\ answer.byte = 0 <=> (answer.outcome = "data" /\ answer.read > 1)
               /\ answer.byte = 1 <=> (answer.outcome = "None" /\ answer.read = 1)
        /\ answer.name \in TTBool =>
               /\ answer.byte = 0 <=> answer.outcome = "True"
               /\ answer.byte = 1 <=> answer.outcome = "False"
               /\ answer.read = 1

\* C20, its case: a command that returns data has read the status 0x01 and
\* returned None.
C20_Witness ==
    /\ answer.name \in TTData
    /\ answer.byte = 1
    /\ answer.outcome = "None"
    /\ answer.read = 1

\* C21: ext with both lock_records and lock_all fails before any I/O: from the
\* call to its failure no socket is created or written, no connection is
\* opened or taken from the pool; with one flag opts is 1 (lock_records) or 2
\* (lock_all), with none 0.
C21_ExtBadArgument ==
    [][
        /\ \A t \in Threads :
              (/\ op'.tid = t
               /\ \/ kind'[t] = "ext_both"
                  \/ (op'.name = "ext" /\ op'.lock_records /\ op'.lock_all))
              => UNCHANGED <<socks, in_use, free, mutex, conn>>
        /\ (op'.name = "ext" /\ op'.lock_records /\ op'.lock_all)
              => op'.err = "ValueError"
        /\ (op'.name = "ext" /\ ~(op'.lock_records /\ op'.lock_all))
              => op'.opts = (IF op'.lock_records THEN 1 ELSE IF op'.lock_all THEN 2 ELSE 0)
      ]_vars

\* C22: in a misc request opts has bit 1 set exactly when the caller asked
\* that the update log not be updated (update_log false), and is 0 when the
\* caller asked for the log to be updated.
C22_MiscOpts ==
    answer.name = "misc" =>
        /\ answer.opts = 1 <=> ~answer.update_log
        /\ answer.opts = 0 <=> answer.update_log

\* C23: misc sends one request, then reads the status byte, the count and the
\* count values of the response, and returns (status = 0x00, the values).
C23_MiscResponse ==
    (answer.name = "misc" /\ answer.outcome # "sent") =>
        /\ answer.requests = 1
        /\ answer.outcome = "ok"
        /\ answer.read = 2 + Len(answer.values)
        /\ answer.ret = <<answer.byte = 0, answer.values>>

\* C24: in every Kyoto Tycoon set variant (set, set_bulk, and each record of
\* set_bulk_raw) an expiration given as None or as zero is written as
\* 0x7FFFFFFFFFFFFFFF, and any other expiration is written unchanged.
C24_ExpireSentinel ==
    answer.name \in {"set", "set_bulk", "set_bulk_raw"} =>
        \A i \in DOMAIN answer.wire :
            answer.wire[i].xt = IF answer.xtarg[i] = <<>> \/ answer.xtarg[i] = <<0>>
                                THEN <<32767, 65535, 65535, 65535>>
                                ELSE <<0, 0, 0, answer.xtarg[i][1]>>

\* C25: a write with no_reply (Kyoto Tycoon set, set_bulk, set_bulk_raw,
\* remove, remove_bulk, script) has flag bit 0x01 set in its request, returns
\* None and reads nothing from the socket; Tokyo Tyrant putnr returns None
\* and reads nothing.
C25_NoReply ==
    (answer.name \in {"set", "set_bulk", "set_bulk_raw", "remove", "remove_bulk",
                      "script", "putnr"} /\ answer.no_reply) =>
        /\ answer.name # "putnr" => answer.flags % 2 = 1
        /\ answer.ret = <<>>
        /\ answer.read = 0

\* C25, its case: a set with no_reply has been sent.
C25_Witness ==
    /\ answer.name = "set"
    /\ answer.no_reply
    /\ answer.wire # <<>>
    /\ answer.read = 0

C27_Database ==
    [][(answer = NoCall /\ answer' # NoCall) =>
        LET a == answer'
            used == IF a.dbarg = <<>> THEN default_db ELSE a.dbarg[1]
        IN  /\ a.name \in {"set", "set_bulk", "get", "get_bulk", "remove", "remove_bulk"} =>
                   /\ a.db = used
                   /\ \A i \in DOMAIN a.wire : a.wire[i].db = used
            /\ a.name = "set_database" => default_db' = a.dbarg[1]
            /\ a.name # "set_database" => default_db' = default_db
      ]_vars

\* C27, its case: with default_db 1, a call that gives db 0 has used index 0.
C27_Witness ==
    /\ answer.name \in {"set", "get", "remove"}
    /\ default_db = 1
    /\ answer.dbarg = <<0>>
    /\ answer.db = 0
    /\ answer.wire # <<>>

\* C28: keys() sends iterinit once and yields the keys of the iternext
\* replies with status 0x00, in reply order; at the first iternext reply with
\* status 0x01 the iteration ends cleanly, not with an error, and no further
\* request is sent; iternext() returns None on that status.
C28_KeysIteration ==
    /\ gen.pc \in {"yielded", "done"} =>
           /\ gen.inits = 1
           /\ gen.yielded = gen.replies
           /\ gen.nexts = Len(gen.replies) + (IF gen.exhausted THEN 1 ELSE 0)
    /\ (gen.pc = "done" /\ gen.exhausted) => gen.outcome = "StopIteration"
    /\ (answer.name = "iternext" /\ answer.byte = 1) =>
           answer.outcome = "None" /\ answer.read = 1

\* C29: however the connection splits the incoming bytes into chunks, every
\* recv(n) that returns gives exactly n bytes, the next n of the stream after
\* those returned before; and the bytes received and not yet returned,
\* followed by those still on the connection, are the rest of what the peer
\* sent: nothing is lost, duplicated or reordered.
C29_RecvExact ==
    /\ (io.name = "recv" /\ io.cause = "") =>
           io.data = [i \in 1..io.length |-> io.taken - io.length + i]
    /\ ~sockobj.is_closed =>
           SubSeq(sockobj.buf, sockobj.bytes_read + 1, sockobj.bytes_written) \o sockobj.net
               = [i \in 1..(io.sent - io.taken) |-> io.taken + i]

\* C29, its case: a recv after the first has returned, and bytes received
\* beyond it stay in the buffer.
C29_Witness ==
    /\ io.name = "recv"
    /\ io.cause = ""
    /\ io.taken > io.length
    /\ sockobj.bytes_written > sockobj.bytes_read

\* C30: recv fails in three kinds that can be told apart: a read of zero
\* bytes (connection closed), a timeout, and any other I/O error; send fails
\* in the kind of the closed connection.
C30_ErrorKinds ==
    /\ (io.name = "recv" /\ io.cause = "timeout") => io.type # recv_error("zero").type
    /\ (io.name = "recv" /\ io.cause = "error") =>
           io.type \notin {recv_error("zero").type, recv_error("timeout").type}
    /\ (io.name = "send" /\ io.cause # "") => io.type = recv_error("zero").type

C39_BufferInvariant ==
    /\ sockobj.bytes_read <= sockobj.bytes_written
    /\ sockobj.bytes_read = sockobj.bytes_written =>
           /\ sockobj.bytes_read = 0
           /\ sockobj.buf = <<>>

\* C39, its case: a recv has failed after it had put bytes into the buffer,
\* behind bytes that an earlier recv left unread.
C39_Witness ==
    /\ io.name = "recv"
    /\ io.cause \in {"error", "zero", "timeout"}
    /\ sockobj.bytes_read > 0
    /\ sockobj.bytes_written > sockobj.bytes_read + 1

\* C32: for every n in [0, 2^56), writing n gives between 1 and 8 bytes, all
\* but the last with the high bit set and the last with it clear, and reading
\* these bytes gives back n and the number of bytes written.
C32_VarintRoundTrip ==
    (answer.name \in {"writevarnum", "readvarnum"} /\ below(answer.num, 8)) =>
        /\ answer.nbytes \in 1..8
        /\ Len(answer.buf) = answer.nbytes
        /\ \A i \in 1..answer.nbytes :
               (answer.buf[i] >= Septet) <=> (i < answer.nbytes)
        /\ answer.name = "readvarnum" =>
               /\ answer.np = answer.num
               /\ answer.step = answer.nbytes

\* C32, its case: a number of eight bytes, 2^56 - 1, was written and read.
C32_Witness ==
    /\ answer.name = "readvarnum"
    /\ answer.num = U64(Limb - 1, Limb - 1)
    /\ answer.nbytes = 8

\* A dict, and a list, of byte strings only.
BytesDict(d) == \A i \in DOMAIN d : d[i][1].type = "bytes" /\ d[i][2].type = "bytes"
BytesList(l) == \A i \in DOMAIN l : l[i].type = "bytes"

\* C33: for every map m of byte-string keys to byte-string values,
\* deserialize_dict(serialize_dict(m)) returns a map equal to m.
C33_MapRoundTrip ==
    (answer.name = "deserialize_dict" /\ answer.dumped /\ BytesDict(answer.input)) =>
        /\ answer.out.err = ""
        /\ answer.out.ret = AsDict(answer.input)

\* C34: for every list l of byte strings, empty and repeated ones included,
\* deserialize_list(serialize_list(l)) returns the items of l in their order.
C34_ListRoundTrip ==
    (answer.name = "deserialize_list" /\ answer.dumped /\ BytesList(answer.input)) =>
        /\ answer.out.err = ""
        /\ answer.out.ret = answer.input

\* The first item of a list blob is truncated: its length is complete and
\* exceeds the bytes that follow it.
ListTruncated(blob) ==
    LET v == readvarnum(blob, Len(blob))
    IN  /\ v.ret >= 1
        /\ blob[v.ret] < Septet
        /\ v.np.lo > Len(blob) - v.ret

\* The first pair of a map blob is truncated: its two lengths are complete
\* and their sum exceeds the bytes that follow them.
DictTruncated(blob) ==
    LET k == readvarnum(blob, Len(blob))
        rest == advance(blob, k.ret)
        v == readvarnum(rest, Len(rest))
    IN  /\ k.ret >= 1
        /\ blob[k.ret] < Septet
        /\ v.ret >= 1
        /\ rest[v.ret] < Septet
        /\ k.np.lo + v.np.lo > Len(rest) - v.ret

\* C35: deserializing a blob with a truncated item raises the error of a
\* corrupt blob, returns nothing, and reads no byte beyond the input.
C35_TruncatedItem ==
    /\ (answer.name = "deserialize_list" /\ ~answer.dumped /\ ListTruncated(answer.blob)) =>
           /\ answer.out.err = "ValueError"
           /\ answer.out.beyond = 0
    /\ (answer.name = "deserialize_dict" /\ ~answer.dumped /\ DictTruncated(answer.blob)) =>
           /\ answer.out.err = "ValueError"
           /\ answer.out.beyond = 0

\* C36: deserializing a blob whose last length has no byte below 0x80 to end
\* it (here: a blob of such bytes only) raises the error of a corrupt blob
\* and yields no item.
C36_UnterminatedVarint ==
    (/\ answer.name \in {"deserialize_list", "deserialize_dict"}
     /\ ~answer.dumped
     /\ answer.blob # <<>>
     /\ \A i \in DOMAIN answer.blob : answer.blob[i] >= Septet) =>
        answer.out.err = "ValueError"

\* C37: every change of in_use or of free, by checkout, checkin, close,
\* close_idle or close_all, is made by a caller that holds the mutex of the
\* pool: none is made while another caller holds it.
C37_MutationsUnderMutex ==
    [][
        (in_use' # in_use \/ free' # free) => mutex \in {None, op'.tid}
      ]_vars

\* C38: the mutex of the pool is not held while a socket is being connected:
\* no caller is inside create_socket with the mutex.
C38_NoIoUnderMutex == \A t \in Threads : pc[t] = "connecting" => mutex # t

====
